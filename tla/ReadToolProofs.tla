--------------------------- MODULE ReadToolProofs ---------------------------
(***************************************************************************)
(* Proofs about the output of a tool call (ReadTool over ToolOutput and    *)
(* Collector): for any limits, budgets, writes and contents, what a call   *)
(* delivers is within its limits and no limit is fatal, a collector never  *)
(* gives its text up for the budget error, what it keeps is a head and a   *)
(* tail of what was written, what is said to be truncated is, and pages of *)
(* an ASCII file reassemble it.                                            *)
(*                                                                         *)
(* The modules compute by recursive functions and folds.  One lemma,       *)
(* RecursionExists, shows that such a definition denotes a function; what  *)
(* the function computes is shown by induction on its rank, with the       *)
(* property given as a set, since the library's induction theorems take an *)
(* operator.                                                               *)
(***************************************************************************)
EXTENDS ReadTool, FiniteSetTheorems, SequenceTheorems, WellFoundedInduction, TLAPS

(***************************************************************************)
(* Induction and recursion.                                                *)
(***************************************************************************)

\* The order of the naturals as a relation, to be used without its operator.
LEMMA LessOnNat ==
  \E R : IsWellFoundedOn(R, Nat) /\ \A y, z \in Nat : <<y, z>> \in R <=> y < z
<1> DEFINE R == OpToRel(<, Nat)
<1>1. IsWellFoundedOn(R, Nat)
  BY NatLessThanWellFounded
<1>2. \A y, z \in Nat : <<y, z>> \in R <=> y < z
  BY DEF OpToRel
<1> HIDE DEF R
<1> QED BY <1>1, <1>2

\* A set with a well-founded order on the naturals has a minimal element.
LEMMA MinimalNat ==
  ASSUME NEW R, IsWellFoundedOn(R, Nat), NEW T, T \subseteq Nat, T # {}
  PROVE  \E x \in T : \A y \in T : ~ (<<y, x>> \in R)
BY WFMin

\* A nonempty set of naturals has a least element.
LEMMA LeastNat ==
  ASSUME NEW T, T \subseteq Nat, T # {}
  PROVE  \E x \in T : \A y \in T : x <= y
<1>1. PICK R : IsWellFoundedOn(R, Nat) /\ \A y, z \in Nat : <<y, z>> \in R <=> y < z
  BY LessOnNat
<1>2. PICK x \in T : \A y \in T : ~ (<<y, x>> \in R)
  BY <1>1, MinimalNat
<1>3. ASSUME NEW y \in T
      PROVE  x <= y
  <2>1. x \in Nat /\ y \in Nat /\ ~ (<<y, x>> \in R)
    BY <1>2
  <2>2. ~ (y < x)
    BY <1>1, <2>1
  <2> QED BY <2>1, <2>2
<1> QED BY <1>3

\* Induction over the naturals, for a property given as the set of those that have it.
LEMMA SetInduction ==
  ASSUME NEW S, 0 \in S, \A n \in Nat : n \in S => n + 1 \in S
  PROVE  \A n \in Nat : n \in S
<1> SUFFICES ASSUME Nat \ S # {}
             PROVE  FALSE
  OBVIOUS
<1>1. PICK x \in Nat \ S : \A y \in Nat \ S : x <= y
  BY LeastNat
<1>2. x # 0 /\ x \in Nat
  BY <1>1
<1>3. x - 1 \in Nat /\ x - 1 < x
  BY <1>2
<1>4. x - 1 \in S
  BY <1>1, <1>2, <1>3
<1> QED BY <1>1, <1>2, <1>3, <1>4

\* Induction by a rank.
LEMMA RankInduction ==
  ASSUME NEW D, NEW G, NEW rank \in [D -> Nat],
         \A x \in D : (\A y \in D : rank[y] < rank[x] => y \in G) => x \in G
  PROVE  \A x \in D : x \in G
<1> DEFINE S == {n \in Nat : \A x \in D : rank[x] < n => x \in G}
<1>1. 0 \in S
  OBVIOUS
<1>2. ASSUME NEW n \in Nat, n \in S
      PROVE  n + 1 \in S
  <2> SUFFICES ASSUME NEW x \in D, rank[x] < n + 1
               PROVE  x \in G
    OBVIOUS
  <2>1. ASSUME NEW y \in D, rank[y] < rank[x]
        PROVE  y \in G
    <3>1. rank[y] < n
      BY <2>1
    <3> QED BY <1>2, <3>1
  <2> QED BY <2>1
<1> HIDE DEF S
<1>3. \A n \in Nat : n \in S
  BY <1>1, <1>2, SetInduction
<1> SUFFICES ASSUME NEW x \in D
             PROVE  x \in G
  OBVIOUS
<1>4. rank[x] + 1 \in S
  BY <1>3
<1> QED BY <1>4 DEF S

\* A functional on the functions from D to X whose values depend only on values
\* of lower rank has a fixed point.
Recursion(D, X, F, rank, N) ==
  /\ X # {} /\ N \in Nat
  /\ F \in [[D -> X] -> [D -> X]]
  /\ rank \in [D -> Nat] /\ \A x \in D : rank[x] < N
  /\ \A f, g \in [D -> X], x \in D :
       (\A y \in D : rank[y] < rank[x] => f[y] = g[y]) => F[f][x] = F[g][x]

LEMMA RecursionExists ==
  ASSUME NEW D, NEW X, NEW F, NEW rank, NEW N, Recursion(D, X, F, rank, N)
  PROVE  \E f \in [D -> X] : F[f] = f
<1> USE DEF Recursion
<1>0. PICK x0 : x0 \in X
  OBVIOUS
<1> DEFINE S == {n \in Nat : \E f \in [D -> X] : \A x \in D : rank[x] < n => F[f][x] = f[x]}
<1>1. 0 \in S
  <2>1. [x \in D |-> x0] \in [D -> X]
    BY <1>0
  <2>2. \A x \in D : ~ (rank[x] < 0)
    OBVIOUS
  <2> QED BY <2>1, <2>2
<1>2. ASSUME NEW n \in Nat, n \in S
      PROVE  n + 1 \in S
  <2>1. PICK f \in [D -> X] : \A x \in D : rank[x] < n => F[f][x] = f[x]
    BY <1>2
  <2>2. F[f] \in [D -> X]
    OBVIOUS
  <2>3. ASSUME NEW x \in D, rank[x] < n + 1
        PROVE  F[F[f]][x] = F[f][x]
    <3>1. ASSUME NEW y \in D, rank[y] < rank[x]
          PROVE  F[f][y] = f[y]
      <4>1. rank[y] < n
        BY <2>3, <3>1
      <4> QED BY <2>1, <4>1
    <3> QED BY <2>2, <3>1
  <2> QED BY <2>2, <2>3
<1> HIDE DEF S
<1>3. N \in S
  BY <1>1, <1>2, SetInduction
<1>4. PICK f \in [D -> X] : \A x \in D : F[f][x] = f[x]
  BY <1>3 DEF S
<1>5. F[f] \in [D -> X]
  OBVIOUS
<1> QED BY <1>4, <1>5

\* The largest of a bounded set of naturals.
LEMMA MaxOf ==
  ASSUME NEW S, S \subseteq Nat, S # {}, NEW n \in Nat, \A x \in S : x <= n
  PROVE  Max(S) \in S /\ \A x \in S : x <= Max(S)
<1> DEFINE B == {k \in Nat : \A x \in S : x <= k}
<1>1. PICK m \in B : \A k \in B : m <= k
  <2>1. B \subseteq Nat /\ n \in B
    OBVIOUS
  <2> HIDE DEF B
  <2> QED BY <2>1, LeastNat
<1>2. m \in S
  <2> SUFFICES ASSUME m \notin S
               PROVE  FALSE
    OBVIOUS
  <2>1. \A x \in S : x < m
    <3> SUFFICES ASSUME NEW x \in S
                 PROVE  x < m
      OBVIOUS
    <3>1. x \in Nat /\ m \in Nat /\ x <= m /\ x # m
      OBVIOUS
    <3> QED BY <3>1
  <2>2. m # 0 /\ m - 1 \in Nat
    <3>1. PICK x \in S : x \in Nat /\ x < m
      BY <2>1
    <3> QED BY <3>1
  <2>3. m - 1 \in B
    BY <2>1, <2>2
  <2> QED BY <1>1, <2>2, <2>3
<1>3. \A x \in S : m >= x
  OBVIOUS
<1>4. Max(S) \in S /\ \A x \in S : Max(S) >= x
  BY <1>2, <1>3 DEF Max
<1>5. ASSUME NEW x \in S
      PROVE  x <= Max(S)
  <2>1. x \in Nat /\ Max(S) \in Nat /\ Max(S) >= x
    BY <1>4
  <2> QED BY <2>1
<1> QED BY <1>4, <1>5

\* The smallest of a set of naturals.
LEMMA MinOf ==
  ASSUME NEW S, S \subseteq Nat, S # {}
  PROVE  Min(S) \in S /\ \A x \in S : Min(S) <= x
<1>1. PICK m \in S : \A x \in S : m <= x
  BY LeastNat
<1> QED BY <1>1 DEF Min

(***************************************************************************)
(* Sums.                                                                   *)
(***************************************************************************)

\* SumOf is the last of the partial sums.
PartialSums(s, f) ==
  /\ f[0] = 0
  /\ \A i \in 1..Len(s) : f[i] = f[i - 1] + s[i]

LEMMA SumHasPartialSums ==
  ASSUME NEW s \in Seq(Nat)
  PROVE  \E f \in [0..Len(s) -> Nat] : SumOf(s) = f[Len(s)] /\ PartialSums(s, f)
<1> DEFINE D == 0..Len(s)
           Body(f) == [i \in D |-> IF i = 0 THEN 0 ELSE f[i - 1] + s[i]]
           F == [f \in [D -> Nat] |-> Body(f)]
           rank == [i \in D |-> i]
           sum == CHOOSE f : f = Body(f)
<1>0. Len(s) \in Nat /\ \A i \in 1..Len(s) : s[i] \in Nat
  OBVIOUS
<1>1. \E f : f = Body(f)
  <2>1. F \in [[D -> Nat] -> [D -> Nat]]
    <3> SUFFICES ASSUME NEW f \in [D -> Nat], NEW i \in D
                 PROVE  (IF i = 0 THEN 0 ELSE f[i - 1] + s[i]) \in Nat
      OBVIOUS
    <3>1. CASE i = 0
      BY <3>1
    <3>2. CASE i # 0
      <4>1. i - 1 \in D /\ i \in 1..Len(s)
        BY <1>0, <3>2
      <4>2. f[i - 1] \in Nat /\ s[i] \in Nat
        BY <1>0, <4>1
      <4> QED BY <4>2
    <3> QED BY <3>1, <3>2
  <2>2. rank \in [D -> Nat] /\ \A i \in D : rank[i] < Len(s) + 1
    BY <1>0
  <2>3. ASSUME NEW f \in [D -> Nat], NEW g \in [D -> Nat], NEW i \in D,
               \A y \in D : rank[y] < rank[i] => f[y] = g[y]
        PROVE  F[f][i] = F[g][i]
    <3>1. i # 0 => i - 1 \in D /\ rank[i - 1] < rank[i]
      BY <1>0
    <3> QED BY <2>3, <3>1
  <2>4. Len(s) + 1 \in Nat
    BY <1>0
  <2>5. Recursion(D, Nat, F, rank, Len(s) + 1)
    <3>1. Nat # {}
      OBVIOUS
    <3> HIDE DEF F, rank, D
    <3> QED BY <2>1, <2>2, <2>3, <2>4, <3>1 DEF Recursion
  <2> HIDE DEF F
  <2>7. \E f \in [D -> Nat] : F[f] = f
    BY <2>5, RecursionExists
  <2>6. \A f \in [D -> Nat] : F[f] = Body(f)
    BY DEF F
  <2> QED BY <2>6, <2>7
<1>2. sum = Body(sum)
  BY <1>1
<1>3. SumOf(s) = sum[Len(s)]
  BY Zenon DEF SumOf
<1> HIDE DEF sum
<1>4. sum[0] = 0 /\ \A i \in 1..Len(s) : sum[i] = sum[i - 1] + s[i]
  BY <1>0, <1>2
<1>5. \A n \in Nat : n \in D => sum[n] \in Nat
  <2> DEFINE S == {n \in Nat : n \in D => sum[n] \in Nat}
  <2>1. 0 \in S
    BY <1>4
  <2>2. ASSUME NEW n \in Nat, n \in S
        PROVE  n + 1 \in S
    <3> SUFFICES ASSUME n + 1 \in D
                 PROVE  sum[n + 1] \in Nat
      OBVIOUS
    <3>1. n \in D /\ n + 1 \in 1..Len(s) /\ (n + 1) - 1 = n
      BY <1>0
    <3>2. sum[n + 1] = sum[n] + s[n + 1]
      BY <1>4, <3>1
    <3> QED BY <1>0, <2>2, <3>1, <3>2
  <2> HIDE DEF S
  <2>3. \A n \in Nat : n \in S
    BY <2>1, <2>2, SetInduction
  <2> QED BY <2>3 DEF S
<1>6. sum \in [D -> Nat]
  BY <1>2, <1>5
<1> QED BY <1>3, <1>4, <1>6 DEF PartialSums

\* Two ways to sum the same numbers step by step agree.
LEMMA SameSums ==
  ASSUME NEW s \in Seq(Nat), NEW n \in 0..Len(s), NEW f, NEW g,
         PartialSums(s, f), f[0] = g[0], \A i \in 1..n : g[i] = g[i - 1] + s[i]
  PROVE  f[n] = g[n]
<1> USE DEF PartialSums
<1> DEFINE S == {k \in Nat : k <= n => f[k] = g[k]}
<1>1. 0 \in S
  OBVIOUS
<1>2. ASSUME NEW k \in Nat, k \in S
      PROVE  k + 1 \in S
  <2> SUFFICES ASSUME k + 1 <= n
               PROVE  f[k + 1] = g[k + 1]
    OBVIOUS
  <2>1. k + 1 \in 1..n /\ (k + 1) - 1 = k /\ k <= n
    OBVIOUS
  <2>2. f[k + 1] = f[k] + s[k + 1] /\ g[k + 1] = g[k] + s[k + 1]
    BY <2>1
  <2> QED BY <1>2, <2>1, <2>2
<1>3. n \in Nat /\ n <= n
  OBVIOUS
<1> HIDE DEF S
<1>4. n \in S
  BY <1>1, <1>2, <1>3, SetInduction
<1> QED BY <1>3, <1>4 DEF S

\* A sum of naturals is a natural, and the sum of nothing is 0.
LEMMA SumType ==
  ASSUME NEW s \in Seq(Nat)
  PROVE  SumOf(s) \in Nat
<1>1. PICK f \in [0..Len(s) -> Nat] : SumOf(s) = f[Len(s)]
  BY SumHasPartialSums
<1>2. Len(s) \in 0..Len(s)
  OBVIOUS
<1> QED BY <1>1, <1>2

LEMMA SumEmpty == SumOf(<<>>) = 0
<1>1. <<>> \in Seq(Nat) /\ Len(<<>>) = 0
  OBVIOUS
<1>2. PICK f \in [0..Len(<<>>) -> Nat] : SumOf(<<>>) = f[Len(<<>>)] /\ PartialSums(<<>>, f)
  BY <1>1, SumHasPartialSums
<1> QED BY <1>1, <1>2 DEF PartialSums

LEMMA SumAppend ==
  ASSUME NEW s \in Seq(Nat), NEW x \in Nat
  PROVE  SumOf(Append(s, x)) = SumOf(s) + x
<1> DEFINE t == Append(s, x)
<1>1. t \in Seq(Nat) /\ Len(t) = Len(s) + 1 /\ Len(s) \in Nat
      /\ t[Len(s) + 1] = x /\ \A i \in 1..Len(s) : t[i] = s[i] /\ s[i] \in Nat
  OBVIOUS
<1> HIDE DEF t
<1>2. PICK f \in [0..Len(s) -> Nat] : SumOf(s) = f[Len(s)] /\ PartialSums(s, f)
  BY SumHasPartialSums
<1>3. PICK g \in [0..Len(t) -> Nat] : SumOf(t) = g[Len(t)] /\ PartialSums(t, g)
  BY <1>1, SumHasPartialSums
<1>4. \A i \in 1..Len(s) : g[i] = g[i - 1] + s[i]
  BY <1>1, <1>3 DEF PartialSums
<1>5. Len(s) \in 0..Len(s) /\ f[0] = g[0]
  BY <1>2, <1>3 DEF PartialSums
<1>6. f[Len(s)] = g[Len(s)]
  BY <1>2, <1>4, <1>5, SameSums
<1>7. g[Len(s) + 1] = g[Len(s)] + x
  <2>1. Len(s) + 1 \in 1..Len(t) /\ (Len(s) + 1) - 1 = Len(s)
    BY <1>1
  <2> QED BY <1>1, <1>3, <2>1 DEF PartialSums
<1>8. SumOf(t) = SumOf(s) + x
  BY <1>1, <1>2, <1>3, <1>6, <1>7
<1> QED BY <1>8 DEF t

\* The sum of a concatenation.
LEMMA SumConcat ==
  ASSUME NEW s \in Seq(Nat), NEW t \in Seq(Nat)
  PROVE  SumOf(s \o t) = SumOf(s) + SumOf(t)
<1> DEFINE S == {n \in Nat : \A u \in Seq(Nat) : Len(u) = n => SumOf(s \o u) = SumOf(s) + SumOf(u)}
<1>1. 0 \in S
  <2> SUFFICES ASSUME NEW u \in Seq(Nat), Len(u) = 0
               PROVE  SumOf(s \o u) = SumOf(s) + SumOf(u)
    OBVIOUS
  <2>1. u = <<>> /\ s \o u = s
    OBVIOUS
  <2> QED BY <2>1, SumEmpty, SumType
<1>2. ASSUME NEW n \in Nat, n \in S
      PROVE  n + 1 \in S
  <2> SUFFICES ASSUME NEW u \in Seq(Nat), Len(u) = n + 1
               PROVE  SumOf(s \o u) = SumOf(s) + SumOf(u)
    OBVIOUS
  <2> DEFINE front == SubSeq(u, 1, n)
             x == u[n + 1]
  <2>1. front \in Seq(Nat) /\ Len(front) = n /\ x \in Nat /\ u = Append(front, x)
    OBVIOUS
  <2> HIDE DEF front, x
  <2>2. s \o u = Append(s \o front, x) /\ s \o front \in Seq(Nat)
    BY <2>1
  <2>3. SumOf(s \o front) = SumOf(s) + SumOf(front)
    BY <1>2, <2>1
  <2>4. SumOf(s \o u) = SumOf(s \o front) + x /\ SumOf(u) = SumOf(front) + x
    BY <2>1, <2>2, SumAppend
  <2>5. SumOf(s) \in Nat /\ SumOf(front) \in Nat
    BY <2>1, SumType
  <2> QED BY <2>1, <2>3, <2>4, <2>5
<1> HIDE DEF S
<1>3. \A n \in Nat : n \in S
  BY <1>1, <1>2, SetInduction
<1>4. Len(t) \in S
  BY <1>3
<1> QED BY <1>4 DEF S

\* A text of ASCII runes only is as long as it has runes.
LEMMA SumOfOnes ==
  ASSUME NEW n \in Nat
  PROVE  SumOf([i \in 1..n |-> 1]) = n
<1> DEFINE ones(k) == [i \in 1..k |-> 1]
           S == {k \in Nat : SumOf(ones(k)) = k}
<1>1. 0 \in S
  <2>1. ones(0) = <<>>
    OBVIOUS
  <2> QED BY <2>1, SumEmpty
<1>2. ASSUME NEW k \in Nat, k \in S
      PROVE  k + 1 \in S
  <2>1. ones(k) \in Seq(Nat) /\ Len(ones(k)) = k
    OBVIOUS
  <2>2. ones(k + 1) = Append(ones(k), 1)
    <3>1. ones(k + 1) \in Seq(Nat) /\ Append(ones(k), 1) \in Seq(Nat)
      OBVIOUS
    <3>2. Len(ones(k + 1)) = k + 1 /\ Len(Append(ones(k), 1)) = k + 1
      OBVIOUS
    <3>3. ASSUME NEW i \in 1..(k + 1)
          PROVE  ones(k + 1)[i] = Append(ones(k), 1)[i]
      OBVIOUS
    <3> QED BY <3>1, <3>2, <3>3
  <2>3. SumOf(ones(k + 1)) = SumOf(ones(k)) + 1
    BY <2>1, <2>2, SumAppend
  <2> QED BY <1>2, <2>3
<1> HIDE DEF S
<1>3. n \in S
  BY <1>1, <1>2, SetInduction
<1> QED BY <1>3 DEF S

(***************************************************************************)
(* Windows: the bytes of a window, runs of positions, and the views that   *)
(* cut a window to a number of bytes.                                      *)
(***************************************************************************)
WindowOf(c) == 1..Len(c.stream)

Widths(c, w) == [i \in DOMAIN w |-> c.stream[w[i]]]

LEMMA WidthsType ==
  ASSUME NEW c, c.stream \in Seq(Nat), NEW w \in Seq(WindowOf(c))
  PROVE  Widths(c, w) \in Seq(Nat) /\ Len(Widths(c, w)) = Len(w)
<1>1. DOMAIN w = 1..Len(w) /\ Len(w) \in Nat
  OBVIOUS
<1>2. ASSUME NEW i \in 1..Len(w)
      PROVE  c.stream[w[i]] \in Nat
  <2>1. w[i] \in 1..Len(c.stream)
    BY DEF WindowOf
  <2> QED BY <2>1
<1> QED BY <1>1, <1>2 DEF Widths

LEMMA WidthsAt ==
  ASSUME NEW c, NEW w, DOMAIN w = 1..Len(w), NEW i \in 1..Len(w)
  PROVE  Widths(c, w)[i] = c.stream[w[i]]
BY DEF Widths

LEMMA ConcatType ==
  ASSUME NEW S, NEW s \in Seq(S), NEW t \in Seq(S)
  PROVE  s \o t \in Seq(S) /\ Len(s \o t) = Len(s) + Len(t)
OBVIOUS

\* Sequences of the same length with the same elements are the same.
LEMMA SeqExtensional ==
  ASSUME NEW S, NEW s \in Seq(S), NEW T, NEW t \in Seq(T), Len(s) = Len(t),
         \A i \in 1..Len(s) : s[i] = t[i]
  PROVE  s = t
<1>1. s = [i \in 1..Len(s) |-> s[i]] /\ t = [i \in 1..Len(t) |-> t[i]]
  OBVIOUS
<1> QED BY <1>1

LEMMA BytesType ==
  ASSUME NEW c, c.stream \in Seq(Nat), NEW w \in Seq(WindowOf(c))
  PROVE  Bytes(c, w) \in Nat
<1>1. Bytes(c, w) = SumOf(Widths(c, w))
  BY DEF Bytes, Widths
<1> QED BY <1>1, WidthsType, SumType

LEMMA BytesEmpty ==
  ASSUME NEW c
  PROVE  Bytes(c, <<>>) = 0
<1>1. [i \in DOMAIN <<>> |-> c.stream[<<>>[i]]] = <<>>
  OBVIOUS
<1> QED BY <1>1, SumEmpty DEF Bytes

LEMMA BytesConcat ==
  ASSUME NEW c, c.stream \in Seq(Nat), NEW v \in Seq(WindowOf(c)), NEW w \in Seq(WindowOf(c))
  PROVE  Bytes(c, v \o w) = Bytes(c, v) + Bytes(c, w)
<1> DEFINE vw == v \o w
           both == Widths(c, v) \o Widths(c, w)
<1>1. vw \in Seq(WindowOf(c)) /\ Len(vw) = Len(v) + Len(w)
  OBVIOUS
<1>2. DOMAIN vw = 1..Len(vw) /\ DOMAIN v = 1..Len(v) /\ DOMAIN w = 1..Len(w)
  OBVIOUS
<1>3. Widths(c, v) \in Seq(Nat) /\ Widths(c, w) \in Seq(Nat)
      /\ Len(Widths(c, v)) = Len(v) /\ Len(Widths(c, w)) = Len(w)
  BY WidthsType
<1>4. Widths(c, vw) \in Seq(Nat) /\ Len(Widths(c, vw)) = Len(vw)
  <2> HIDE DEF vw
  <2> QED BY <1>1, WidthsType
<1>5. both \in Seq(Nat) /\ Len(both) = Len(v) + Len(w)
  <2> DEFINE x == Widths(c, v)
             y == Widths(c, w)
  <2>1. x \in Seq(Nat) /\ y \in Seq(Nat) /\ Len(x) = Len(v) /\ Len(y) = Len(w)
    BY <1>3
  <2>2. both = x \o y
    OBVIOUS
  <2> HIDE DEF x, y, both
  <2>3. x \o y \in Seq(Nat) /\ Len(x \o y) = Len(x) + Len(y)
    <3>1. x \in Seq(Nat) /\ y \in Seq(Nat)
      BY <2>1
    <3> QED BY <3>1, ConcatType
  <2> QED BY <2>1, <2>2, <2>3
<1>6. ASSUME NEW i \in 1..(Len(v) + Len(w))
      PROVE  Widths(c, vw)[i] = both[i]
  <2>0. Len(v) \in Nat /\ Len(w) \in Nat
    OBVIOUS
  <2>1. Widths(c, vw)[i] = c.stream[vw[i]]
    <3>1. i \in 1..Len(vw)
      BY <1>1
    <3> HIDE DEF vw
    <3> QED BY <1>2, <3>1, WidthsAt
  <2>2. CASE i <= Len(v)
    <3>1. i \in 1..Len(v)
      BY <2>0, <2>2
    <3>2. vw[i] = v[i]
      BY <3>1
    <3>3. both[i] = Widths(c, v)[i]
      BY <1>3, <3>1
    <3>4. Widths(c, v)[i] = c.stream[v[i]]
      BY <1>2, <3>1, WidthsAt
    <3> QED BY <2>1, <3>2, <3>3, <3>4
  <2>3. CASE i > Len(v)
    <3>1. i - Len(v) \in 1..Len(w)
      BY <2>0, <2>3
    <3>2. vw[i] = w[i - Len(v)]
      BY <2>3
    <3>3. both[i] = Widths(c, w)[i - Len(v)]
      BY <1>3, <2>3
    <3>4. Widths(c, w)[i - Len(v)] = c.stream[w[i - Len(v)]]
      BY <1>2, <3>1, WidthsAt
    <3> QED BY <2>1, <3>2, <3>3, <3>4
  <2>4. i <= Len(v) \/ i > Len(v)
    BY <2>0
  <2> HIDE DEF vw, both
  <2> QED BY <2>2, <2>3, <2>4
<1>7. Widths(c, vw) = both
  <2> HIDE DEF vw, both
  <2> QED BY <1>1, <1>4, <1>5, <1>6, SeqExtensional
<1>8. SumOf(both) = SumOf(Widths(c, v)) + SumOf(Widths(c, w))
  BY <1>3, SumConcat
<1>9. Bytes(c, vw) = SumOf(Widths(c, vw)) /\ Bytes(c, v) = SumOf(Widths(c, v))
      /\ Bytes(c, w) = SumOf(Widths(c, w))
  BY DEF Bytes, Widths
<1> QED BY <1>7, <1>8, <1>9

\* What was written before keeps its width as the stream grows.
LEMMA BytesGrown ==
  ASSUME NEW c, c.stream \in Seq(Nat), NEW d, NEW units \in Seq(Nat),
         d.stream = c.stream \o units, NEW w \in Seq(WindowOf(c))
  PROVE  w \in Seq(WindowOf(d)) /\ Bytes(d, w) = Bytes(c, w)
<1>1. \A i \in WindowOf(c) : i \in WindowOf(d) /\ d.stream[i] = c.stream[i]
  BY DEF WindowOf
<1>2. \A i \in DOMAIN w : w[i] \in WindowOf(c)
  OBVIOUS
<1>3. Widths(d, w) = Widths(c, w)
  BY <1>1, <1>2 DEF Widths
<1>4. w \in Seq(WindowOf(d))
  BY <1>1
<1> QED BY <1>3, <1>4 DEF Bytes, Widths

\* A run of positions.
LEMMA PositionsType ==
  ASSUME NEW from \in Nat, NEW to \in Nat, from <= to + 1
  PROVE  /\ Positions(from, to) \in Seq(from..to)
         /\ Positions(from, to) \in Seq(Nat)
         /\ Len(Positions(from, to)) = to - from + 1
<1>1. to - from + 1 \in Nat
  OBVIOUS
<1>2. \A i \in 1..(to - from + 1) : from + i - 1 \in from..to /\ from + i - 1 \in Nat
  OBVIOUS
<1> QED BY <1>1, <1>2 DEF Positions

LEMMA PositionsAt ==
  ASSUME NEW from \in Nat, NEW to \in Nat, NEW i \in 1..(to - from + 1)
  PROVE  Positions(from, to)[i] = from + i - 1
BY DEF Positions

LEMMA PositionsConcat ==
  ASSUME NEW from \in Nat, NEW mid \in Nat, NEW to \in Nat, from <= mid + 1, mid <= to
  PROVE  Positions(from, mid) \o Positions(mid + 1, to) = Positions(from, to)
<1> DEFINE v == Positions(from, mid)
           w == Positions(mid + 1, to)
           all == Positions(from, to)
<1>1. v \in Seq(Nat) /\ Len(v) = mid - from + 1
  BY PositionsType
<1>2. w \in Seq(Nat) /\ Len(w) = to - mid
  <2>1. mid + 1 \in Nat /\ mid + 1 <= to + 1 /\ to - (mid + 1) + 1 = to - mid
    OBVIOUS
  <2> QED BY <2>1, PositionsType
<1>3. all \in Seq(Nat) /\ Len(all) = to - from + 1
  <2>1. from <= to + 1
    OBVIOUS
  <2> QED BY <2>1, PositionsType
<1>4. \A i \in 1..(mid - from + 1) : v[i] = from + i - 1
  BY PositionsAt
<1>5. ASSUME NEW i \in 1..(to - mid)
      PROVE  w[i] = mid + i
  <2>1. mid + 1 \in Nat /\ i \in 1..(to - (mid + 1) + 1) /\ (mid + 1) + i - 1 = mid + i
    OBVIOUS
  <2> QED BY <2>1, PositionsAt
<1>6. \A i \in 1..(to - from + 1) : all[i] = from + i - 1
  BY PositionsAt
<1> HIDE DEF v, w, all
<1>7. v \o w \in Seq(Nat) /\ Len(v \o w) = to - from + 1
  <2>1. Len(v \o w) = Len(v) + Len(w) /\ v \o w \in Seq(Nat)
    BY <1>1, <1>2
  <2> QED BY <1>1, <1>2, <2>1
<1>8. ASSUME NEW i \in 1..(to - from + 1)
      PROVE  (v \o w)[i] = all[i]
  <2>1. CASE i <= mid - from + 1
    <3>1. (v \o w)[i] = v[i]
      BY <1>1, <1>2, <2>1
    <3> QED BY <1>4, <1>6, <2>1, <3>1
  <2>2. CASE ~ (i <= mid - from + 1)
    <3>1. (v \o w)[i] = w[i - Len(v)]
      BY <1>1, <1>2, <2>2
    <3>2. i - Len(v) \in 1..(to - mid) /\ mid + (i - Len(v)) = from + i - 1
      BY <1>1, <2>2
    <3> QED BY <1>5, <1>6, <3>1, <3>2
  <2> QED BY <2>1, <2>2
<1>9. v \o w = all
  BY <1>3, <1>7, <1>8, SeqExtensional
<1> QED BY <1>9 DEF v, w, all

\* The window that keeps the whole stream keeps all its bytes.
LEMMA BytesAll ==
  ASSUME NEW c, c.stream \in Seq(Nat)
  PROVE  Bytes(c, Positions(1, Len(c.stream))) = SumOf(c.stream)
<1> DEFINE n == Len(c.stream)
           w == Positions(1, n)
<1>1. n \in Nat /\ 1 <= n + 1 /\ n - 1 + 1 = n
  OBVIOUS
<1>2. w \in Seq(1..n) /\ Len(w) = n
  BY <1>1, PositionsType
<1>3. DOMAIN w = 1..n
  <2> HIDE DEF w
  <2> QED BY <1>2
<1>4. w \in Seq(WindowOf(c))
  BY <1>2 DEF WindowOf
<1>5. Widths(c, w) \in Seq(Nat) /\ Len(Widths(c, w)) = n
  <2> HIDE DEF w
  <2> QED BY <1>2, <1>4, WidthsType
<1>6. ASSUME NEW i \in 1..n
      PROVE  Widths(c, w)[i] = c.stream[i]
  <2>1. w[i] = i
    BY DEF Positions
  <2>2. Widths(c, w)[i] = c.stream[w[i]]
    <3>1. DOMAIN w = 1..Len(w) /\ i \in 1..Len(w)
      BY <1>2, <1>3
    <3> HIDE DEF w
    <3> QED BY <3>1, WidthsAt
  <2> QED BY <2>1, <2>2
<1>7. Widths(c, w) = c.stream
  <2> HIDE DEF w
  <2> QED BY <1>5, <1>6, SeqExtensional
<1>8. Bytes(c, w) = SumOf(Widths(c, w))
  BY DEF Bytes, Widths
<1> QED BY <1>7, <1>8

\* A cut of a run of positions is a run of positions.
LEMMA PositionsHead ==
  ASSUME NEW from \in Nat, NEW to \in Nat, from <= to + 1, NEW k \in 0..(to - from + 1)
  PROVE  SubSeq(Positions(from, to), 1, k) = Positions(from, from + k - 1)
<1> DEFINE s == Positions(from, to)
           t == SubSeq(s, 1, k)
           u == [i \in 1..k |-> from + i - 1]
<1>1. s \in Seq(Nat) /\ Len(s) = to - from + 1
  BY PositionsType
<1>2. \A i \in 1..k : s[i] = from + i - 1
  BY DEF Positions
<1> HIDE DEF s
<1>3. t \in Seq(Nat) /\ Len(t) = k /\ \A i \in 1..k : t[i] = s[i]
  BY <1>1
<1>4. u \in Seq(Nat) /\ Len(u) = k /\ \A i \in 1..k : u[i] = from + i - 1
  OBVIOUS
<1> HIDE DEF t, u
<1>5. t = u
  BY <1>2, <1>3, <1>4, SeqExtensional
<1>6. Positions(from, from + k - 1) = u
  <2>1. from + k - 1 - from + 1 = k
    OBVIOUS
  <2> QED BY <2>1 DEF Positions, u
<1> QED BY <1>5, <1>6 DEF t, s

LEMMA PositionsTail ==
  ASSUME NEW from \in Nat, NEW to \in Nat, from <= to + 1, NEW k \in 0..(to - from + 1)
  PROVE  SubSeq(Positions(from, to), k + 1, to - from + 1) = Positions(from + k, to)
<1> DEFINE s == Positions(from, to)
           m == to - from + 1
           t == SubSeq(s, k + 1, m)
           u == [i \in 1..(m - k) |-> from + k + i - 1]
<1>1. s \in Seq(Nat) /\ Len(s) = m /\ m \in Nat
  BY PositionsType
<1>2. \A i \in 1..m : s[i] = from + i - 1
  BY DEF Positions
<1> HIDE DEF s
<1>3. t \in Seq(Nat) /\ Len(t) = m - k /\ \A i \in 1..(m - k) : t[i] = s[k + i]
  BY <1>1
<1>4. u \in Seq(Nat) /\ Len(u) = m - k /\ \A i \in 1..(m - k) : u[i] = from + k + i - 1
  <2>1. m - k \in Nat
    BY <1>1
  <2> QED BY <2>1
<1>5. ASSUME NEW i \in 1..(m - k)
      PROVE  t[i] = u[i]
  <2>1. k + i \in 1..m /\ from + (k + i) - 1 = from + k + i - 1
    BY <1>1
  <2> QED BY <1>2, <1>3, <1>4, <2>1
<1>6. Positions(from + k, to) = u
  <2>1. to - (from + k) + 1 = m - k
    OBVIOUS
  <2> QED BY <2>1 DEF Positions
<1> HIDE DEF t, u
<1>7. t = u
  BY <1>3, <1>4, <1>5, SeqExtensional
<1> QED BY <1>6, <1>7 DEF t, s

\* utf8PrefixView and utf8SuffixView: a part that starts or ends the text and
\* fits in the bytes given.
LEMMA PrefixViewFits ==
  ASSUME NEW c, NEW S, NEW s \in Seq(S), NEW n \in Nat
  PROVE  \E k \in 0..Len(s) : PrefixView(c, s, n) = SubSeq(s, 1, k)
                              /\ Bytes(c, SubSeq(s, 1, k)) <= n
<1> DEFINE T == {k \in 0..Len(s) : k = 0 \/ Bytes(c, SubSeq(s, 1, k)) <= n}
<1>1. T \subseteq Nat /\ T # {} /\ Len(s) \in Nat /\ \A k \in T : k <= Len(s)
  <2>1. 0 \in T
    OBVIOUS
  <2> QED BY <2>1
<1>2. Max(T) \in T
  <2> HIDE DEF T
  <2> QED BY <1>1, MaxOf
<1>3. PrefixView(c, s, n) = SubSeq(s, 1, Max(T))
  BY DEF PrefixView
<1>4. Max(T) \in 0..Len(s) /\ (Max(T) = 0 \/ Bytes(c, SubSeq(s, 1, Max(T))) <= n)
  BY <1>2
<1>5. Bytes(c, SubSeq(s, 1, 0)) <= n
  <2>1. SubSeq(s, 1, 0) = <<>>
    OBVIOUS
  <2>2. Bytes(c, <<>>) = 0
    BY BytesEmpty
  <2>3. Bytes(c, SubSeq(s, 1, 0)) = 0
    BY <2>1, <2>2, Zenon
  <2> QED BY <2>3
<1> HIDE DEF T
<1> QED BY <1>3, <1>4, <1>5

LEMMA SuffixViewFits ==
  ASSUME NEW c, NEW S, NEW s \in Seq(S), NEW n \in Nat
  PROVE  \E k \in 0..Len(s) : SuffixView(c, s, n) = SubSeq(s, k + 1, Len(s))
                              /\ Bytes(c, SubSeq(s, k + 1, Len(s))) <= n
<1> DEFINE T == {k \in 0..Len(s) : k = Len(s) \/ Bytes(c, SubSeq(s, k + 1, Len(s))) <= n}
<1>1. T \subseteq Nat /\ T # {}
  <2>1. Len(s) \in T
    OBVIOUS
  <2> QED BY <2>1
<1>2. Min(T) \in T
  <2> HIDE DEF T
  <2> QED BY <1>1, MinOf
<1>3. SuffixView(c, s, n) = SubSeq(s, 1 + Min(T), Len(s))
  BY DEF SuffixView
<1>4. Min(T) \in 0..Len(s)
      /\ (Min(T) = Len(s) \/ Bytes(c, SubSeq(s, Min(T) + 1, Len(s))) <= n)
  BY <1>2
<1>5. Bytes(c, SubSeq(s, Len(s) + 1, Len(s))) <= n
  <2>1. SubSeq(s, Len(s) + 1, Len(s)) = <<>>
    OBVIOUS
  <2>2. Bytes(c, <<>>) = 0
    BY BytesEmpty
  <2>3. Bytes(c, SubSeq(s, Len(s) + 1, Len(s))) = 0
    BY <2>1, <2>2, Zenon
  <2> QED BY <2>3
<1> HIDE DEF T
<1>6. 1 + Min(T) = Min(T) + 1
  BY <1>4
<1> QED BY <1>3, <1>4, <1>5, <1>6

(***************************************************************************)
(* escapeValidPrefix: the units of a buffer have a width, and what is left *)
(* for the next write is raw bytes.                                        *)
(***************************************************************************)
Decoded == [units : Seq(Nat), rest : Seq(RawBytes)]

DecodeAt(in, final, esc, from, i) ==
  IF i > Len(in) THEN [units |-> <<>>, rest |-> <<>>]
  ELSE IF in[i] = "l" /\ i = Len(in) /\ ~final
       THEN [units |-> <<>>, rest |-> <<in[i]>>]
  ELSE LET whole == in[i] = "l" /\ i < Len(in) /\ in[i + 1] = "c"
           next == from[IF whole THEN i + 2 ELSE i + 1]
           unit == IF in[i] = "a" THEN <<1>> ELSE IF whole THEN <<2>> ELSE esc
       IN [next EXCEPT !.units = unit \o @]

DecodeFunction(in, final, esc) ==
  CHOOSE f : f = [i \in 1..(Len(in) + 1) |-> DecodeAt(in, final, esc, f, i)]

LEMMA DecodeUnfolds ==
  ASSUME NEW in, NEW final, NEW esc
  PROVE  EscapeValidPrefix(in, final, esc) = DecodeFunction(in, final, esc)[1]
BY Zenon DEF EscapeValidPrefix, DecodeFunction, DecodeAt

\* What the decoding of a place needs of the places after it.
LEMMA DecodeAtType ==
  ASSUME NEW in \in Seq(RawBytes), NEW final \in BOOLEAN, NEW esc \in Seq(Nat),
         NEW f, NEW i \in 1..(Len(in) + 1),
         \A y \in 1..(Len(in) + 1) : y > i => f[y] \in Decoded
  PROVE  DecodeAt(in, final, esc, f, i) \in Decoded
<1>0. Len(in) \in Nat
  OBVIOUS
<1>1. CASE i > Len(in)
  BY <1>1 DEF DecodeAt, Decoded
<1>2. CASE ~ (i > Len(in)) /\ in[i] = "l" /\ i = Len(in) /\ ~final
  <2>1. <<in[i]>> \in Seq(RawBytes)
    BY <1>0, <1>2
  <2>2. DecodeAt(in, final, esc, f, i) = [units |-> <<>>, rest |-> <<in[i]>>]
    BY <1>2, Zenon DEF DecodeAt
  <2> QED BY <2>1, <2>2 DEF Decoded
<1>3. CASE ~ (i > Len(in)) /\ ~ (in[i] = "l" /\ i = Len(in) /\ ~final)
  <2> DEFINE whole == in[i] = "l" /\ i < Len(in) /\ in[i + 1] = "c"
             at == IF whole THEN i + 2 ELSE i + 1
             unit == IF in[i] = "a" THEN <<1>> ELSE IF whole THEN <<2>> ELSE esc
  <2>1. DecodeAt(in, final, esc, f, i) = [f[at] EXCEPT !.units = unit \o @]
    BY <1>3, Zenon DEF DecodeAt
  <2>2. at \in 1..(Len(in) + 1) /\ at > i
    BY <1>0, <1>3
  <2>3. unit \in Seq(Nat)
    OBVIOUS
  <2> HIDE DEF whole, at, unit
  <2>4. f[at] \in Decoded
    BY <2>2
  <2>5. f[at].units \in Seq(Nat)
    BY <2>4 DEF Decoded
  <2>6. unit \o f[at].units \in Seq(Nat)
    BY <2>3, <2>5, ConcatType
  <2>7. [f[at] EXCEPT !.units = unit \o f[at].units] \in Decoded
    <3> DEFINE u == unit \o f[at].units
    <3>1. u \in Seq(Nat)
      BY <2>6
    <3> HIDE DEF u
    <3>2. [f[at] EXCEPT !.units = u] \in Decoded
      BY <2>4, <3>1 DEF Decoded
    <3> QED BY <3>2 DEF u
  <2> QED BY <2>1, <2>7
<1> QED BY <1>1, <1>2, <1>3

\* The decoder is the function its recursion describes.
LEMMA DecodeFixed ==
  ASSUME NEW in \in Seq(RawBytes), NEW final \in BOOLEAN, NEW esc \in Seq(Nat),
         NEW g, g = DecodeFunction(in, final, esc)
  PROVE  g = [i \in 1..(Len(in) + 1) |-> DecodeAt(in, final, esc, g, i)]
<1> DEFINE D == 1..(Len(in) + 1)
           Body(f) == [i \in D |-> DecodeAt(in, final, esc, f, i)]
           F == [f \in [D -> Decoded] |-> Body(f)]
           rank == [i \in D |-> Len(in) + 1 - i]
<1>0. Len(in) \in Nat /\ Len(in) + 1 \in Nat
  OBVIOUS
<1>1. \A i, y \in D : y > i <=> rank[y] < rank[i]
  BY <1>0
<1>2. \E f : f = Body(f)
  <2>1. F \in [[D -> Decoded] -> [D -> Decoded]]
    <3> SUFFICES ASSUME NEW f \in [D -> Decoded], NEW i \in D
                 PROVE  DecodeAt(in, final, esc, f, i) \in Decoded
      OBVIOUS
    <3>1. \A y \in D : f[y] \in Decoded
      OBVIOUS
    <3> QED BY <3>1, DecodeAtType
  <2>2. rank \in [D -> Nat] /\ \A i \in D : rank[i] < Len(in) + 1
    BY <1>0
  <2>3. ASSUME NEW f \in [D -> Decoded], NEW h \in [D -> Decoded], NEW i \in D,
               \A y \in D : rank[y] < rank[i] => f[y] = h[y]
        PROVE  F[f][i] = F[h][i]
    <3>1. \A y \in D : y > i => f[y] = h[y]
      BY <1>1, <2>3
    <3> DEFINE at == IF in[i] = "l" /\ i < Len(in) /\ in[i + 1] = "c" THEN i + 2 ELSE i + 1
    <3>2. ~ (i > Len(in)) => at \in D /\ at > i
      BY <1>0
    <3>3. ~ (i > Len(in)) => f[at] = h[at]
      <4> HIDE DEF at, rank
      <4> QED BY <3>1, <3>2
    <3>4. DecodeAt(in, final, esc, f, i) = DecodeAt(in, final, esc, h, i)
      BY <3>3, Zenon DEF DecodeAt
    <3> QED BY <3>4
  <2>4. Decoded # {}
    <3>1. [units |-> <<>>, rest |-> <<>>] \in Decoded
      BY DEF Decoded
    <3> QED BY <3>1
  <2>5. Recursion(D, Decoded, F, rank, Len(in) + 1)
    <3> HIDE DEF F, rank, D
    <3> QED BY <1>0, <2>1, <2>2, <2>3, <2>4 DEF Recursion
  <2> HIDE DEF F
  <2>6. \E f \in [D -> Decoded] : F[f] = f
    <3> HIDE DEF D, rank
    <3> QED BY <2>5, RecursionExists
  <2>7. \A f \in [D -> Decoded] : F[f] = Body(f)
    BY DEF F
  <2> QED BY <2>6, <2>7
<1>3. g = Body(g)
  <2>1. \E f : f = [i \in 1..(Len(in) + 1) |-> DecodeAt(in, final, esc, f, i)]
    BY <1>2
  <2> QED BY <2>1, Zenon DEF DecodeFunction
<1> QED BY <1>3

LEMMA DecodeType ==
  ASSUME NEW in \in Seq(RawBytes), NEW final \in BOOLEAN, NEW esc \in Seq(Nat)
  PROVE  EscapeValidPrefix(in, final, esc) \in Decoded
<1> DEFINE D == 1..(Len(in) + 1)
           rank == [i \in D |-> Len(in) + 1 - i]
           g == DecodeFunction(in, final, esc)
<1>0. Len(in) \in Nat /\ Len(in) + 1 \in Nat
  OBVIOUS
<1>1. \A i, y \in D : y > i <=> rank[y] < rank[i]
  BY <1>0
<1>2. g = DecodeFunction(in, final, esc)
  OBVIOUS
<1> HIDE DEF g
<1>3. g = [i \in D |-> DecodeAt(in, final, esc, g, i)]
  BY <1>2, DecodeFixed
<1>4. \A i \in D : g[i] = DecodeAt(in, final, esc, g, i)
  BY <1>3
<1>5. \A i \in D : g[i] \in Decoded
  <2> DEFINE G == {i \in D : g[i] \in Decoded}
  <2>1. ASSUME NEW i \in D, \A y \in D : rank[y] < rank[i] => y \in G
        PROVE  i \in G
    <3>1. \A y \in 1..(Len(in) + 1) : y > i => g[y] \in Decoded
      BY <1>1, <2>1
    <3>2. DecodeAt(in, final, esc, g, i) \in Decoded
      BY <3>1, DecodeAtType
    <3> QED BY <1>4, <3>2
  <2>2. rank \in [D -> Nat]
    BY <1>0
  <2> HIDE DEF G, rank, D
  <2>3. \A i \in D : i \in G
    BY <2>1, <2>2, RankInduction
  <2> QED BY <2>3 DEF G
<1>6. 1 \in D
  BY <1>0
<1> QED BY <1>5, <1>6, DecodeUnfolds DEF g

(***************************************************************************)
(* The inductive invariant.  A plain HeadTail window is the whole stream,  *)
(* or a head within HeadBudget and a tail within TailBudget that end it    *)
(* without a gap; the tail of a group may skip records.                    *)
(***************************************************************************)
Collectors == [mode : {"prefix", "headTail"}, state : {"writing", "prepared", "finished"},
               pending : Seq(RawBytes), budget : Nat, stream : Seq(Nat), window : Seq(Nat),
               head : Nat, omitted : BOOLEAN]

IsCollector(c) == c \in Collectors /\ c.window \in Seq(WindowOf(c))

Increasing(w) == \A i \in 1..(Len(w) - 1) : w[i] < w[i + 1]

WithinBudget(c) == Bytes(c, c.window) <= c.budget

KeepsAll(c) ==
  /\ c.window = Positions(1, Len(c.stream)) /\ c.head = Len(c.stream)
  /\ WithinBudget(c)

KeepsEnds(c, tail) ==
  /\ c.window = Positions(1, c.head) \o tail
  /\ c.head <= Len(c.stream)
  /\ Bytes(c, Positions(1, c.head)) <= HeadBudget(c)
  /\ Bytes(c, tail) <= TailBudget(c)

PlainWindow(c) ==
  /\ c.budget = 0 => c.window = <<>> /\ c.head = 0
  /\ ~c.omitted => KeepsAll(c)
  /\ c.omitted => \E j \in c.head..Len(c.stream) :
                    KeepsEnds(c, Positions(j + 1, Len(c.stream)))

RecordWindow(c) ==
  /\ ~c.omitted => KeepsAll(c)
  /\ c.omitted => \E tail \in Seq((c.head + 1)..Len(c.stream)) :
                    KeepsEnds(c, tail) /\ Increasing(tail)

\* What is marked as left out is: the stream is over the budget, or there is
\* none; and the window of a Prefix collector is shorter than its stream.
OverBudget(c) == c.omitted => SumOf(c.stream) > c.budget

Overflowed(c) ==
  c.omitted => SumOf(c.stream) > c.budget \/ (c.budget = 0 /\ c.stream # <<>>)

Lost(c) ==
  /\ c.omitted => Len(c.window) < Len(c.stream)
  /\ ~c.omitted => c.window = Positions(1, Len(c.stream))

Plain(c) == /\ IsCollector(c)
            /\ c.mode = "prefix" => WithinBudget(c) /\ Lost(c)
            /\ c.mode = "headTail" => PlainWindow(c) /\ Overflowed(c)
RecordCollector(c) ==
  IsCollector(c) /\ c.mode = "headTail" /\ RecordWindow(c) /\ OverBudget(c)

SourceStates == [pending : Seq(RawBytes), record : Nat]

CollectorInv ==
  /\ limits \in Limits
  /\ col.budget = MaxCollectorBody(limits)
  /\ kind = "group" => RecordCollector(col)
  /\ kind \in {"prefix", "headTail"} => Plain(col) /\ col.mode = kind
  /\ src \in [Sources -> SourceStates]

WellFormed == {b \in Seq(Block) : \A i \in DOMAIN b : IsBlock(b[i])}

\* An output whose receipt says what was kept of what was written.
IsReceipt(o, l) ==
  /\ o \in [kind : {"collected"}, text : Nat, limits : {l}, original : Nat, kept : Nat,
            truncated : BOOLEAN, edited : BOOLEAN]
  /\ o.kept = SingleTextFrameSize(o.text)
  /\ o.text <= l.text /\ o.kept <= l.framed
  /\ o.truncated \/ o.original = o.kept

Collected(o) == IsReceipt(o, limits)

OutInv ==
  /\ blocks \in WellFormed
  /\ \/ out = None /\ result = None
     \/ kind = "blocks" /\ out \in [kind : {"sealed", "blocks"}]
     \/ kind \in {"prefix", "headTail", "group"} /\ (out = [kind |-> "budget"] \/ Collected(out))

Fits(r) ==
  /\ r.kept \in Nat /\ r.kept <= limits.framed
  /\ r.text \in Nat /\ r.text <= limits.text

ResultInv ==
  \/ result = None
  \/ result = [kind |-> "error"] /\ (kind = "blocks" \/ (Collected(out) /\ out.edited))
  \/ result.kind = "sealed" /\ Fits(result) /\ result.blocks \in WellFormed

OutputInv == CollectorInv /\ OutInv /\ ResultInv

(***************************************************************************)
(* Runs of positions in the stream of a collector.                         *)
(***************************************************************************)
LEMMA RunType ==
  ASSUME NEW c, c.stream \in Seq(Nat), NEW a \in 0..Len(c.stream), NEW b \in a..Len(c.stream)
  PROVE  /\ Positions(a + 1, b) \in Seq(WindowOf(c))
         /\ Len(Positions(a + 1, b)) = b - a
         /\ Bytes(c, Positions(a + 1, b)) \in Nat
<1>1. a + 1 \in Nat /\ b \in Nat /\ a + 1 <= b + 1 /\ b - (a + 1) + 1 = b - a
  OBVIOUS
<1>2. Positions(a + 1, b) \in Seq((a + 1)..b) /\ Len(Positions(a + 1, b)) = b - a
  BY <1>1, PositionsType
<1>3. (a + 1)..b \subseteq WindowOf(c)
  BY DEF WindowOf
<1>4. Positions(a + 1, b) \in Seq(WindowOf(c))
  BY <1>2, <1>3
<1> QED BY <1>2, <1>4, BytesType

LEMMA RunSplit ==
  ASSUME NEW c, c.stream \in Seq(Nat), NEW a \in 0..Len(c.stream), NEW b \in a..Len(c.stream),
         NEW d \in b..Len(c.stream)
  PROVE  /\ Positions(a + 1, b) \o Positions(b + 1, d) = Positions(a + 1, d)
         /\ Bytes(c, Positions(a + 1, d))
              = Bytes(c, Positions(a + 1, b)) + Bytes(c, Positions(b + 1, d))
<1>1. a + 1 \in Nat /\ b \in Nat /\ d \in Nat /\ a + 1 <= b + 1 /\ b <= d
      /\ b \in 0..Len(c.stream)
  OBVIOUS
<1>2. Positions(a + 1, b) \o Positions(b + 1, d) = Positions(a + 1, d)
  BY <1>1, PositionsConcat
<1>3. Positions(a + 1, b) \in Seq(WindowOf(c)) /\ Positions(b + 1, d) \in Seq(WindowOf(c))
  BY <1>1, RunType
<1>4. Bytes(c, Positions(a + 1, b) \o Positions(b + 1, d))
        = Bytes(c, Positions(a + 1, b)) + Bytes(c, Positions(b + 1, d))
  BY <1>3, BytesConcat
<1> QED BY <1>2, <1>4

\* A view of a run is a run.
LEMMA RunPrefix ==
  ASSUME NEW c, c.stream \in Seq(Nat), NEW a \in 0..Len(c.stream), NEW b \in a..Len(c.stream),
         NEW n \in Nat
  PROVE  \E k \in a..b : PrefixView(c, Positions(a + 1, b), n) = Positions(a + 1, k)
                         /\ Bytes(c, Positions(a + 1, k)) <= n
<1> DEFINE s == Positions(a + 1, b)
<1>1. s \in Seq(WindowOf(c)) /\ Len(s) = b - a
  BY RunType
<1>2. PICK k \in 0..Len(s) : PrefixView(c, s, n) = SubSeq(s, 1, k) /\ Bytes(c, SubSeq(s, 1, k)) <= n
  <2> HIDE DEF s
  <2> QED BY <1>1, PrefixViewFits
<1>3. SubSeq(s, 1, k) = Positions(a + 1, a + k)
  <2>1. a + 1 \in Nat /\ b \in Nat /\ a + 1 <= b + 1 /\ k \in 0..(b - (a + 1) + 1)
        /\ (a + 1) + k - 1 = a + k
    BY <1>1
  <2> QED BY <2>1, PositionsHead
<1>4. a + k \in a..b
  BY <1>1
<1> QED BY <1>2, <1>3, <1>4

LEMMA RunSuffix ==
  ASSUME NEW c, c.stream \in Seq(Nat), NEW a \in 0..Len(c.stream), NEW b \in a..Len(c.stream),
         NEW n \in Nat
  PROVE  \E k \in a..b : SuffixView(c, Positions(a + 1, b), n) = Positions(k + 1, b)
                         /\ Bytes(c, Positions(k + 1, b)) <= n
<1> DEFINE s == Positions(a + 1, b)
<1>1. s \in Seq(WindowOf(c)) /\ Len(s) = b - a
  BY RunType
<1>2. PICK k \in 0..Len(s) : SuffixView(c, s, n) = SubSeq(s, k + 1, Len(s))
                             /\ Bytes(c, SubSeq(s, k + 1, Len(s))) <= n
  <2> HIDE DEF s
  <2> QED BY <1>1, SuffixViewFits
<1>3. SubSeq(s, k + 1, Len(s)) = Positions((a + k) + 1, b)
  <2>1. a + 1 \in Nat /\ b \in Nat /\ a + 1 <= b + 1 /\ k \in 0..(b - (a + 1) + 1)
        /\ b - (a + 1) + 1 = b - a /\ (a + 1) + k = (a + k) + 1
    BY <1>1
  <2>2. SubSeq(s, k + 1, b - (a + 1) + 1) = Positions((a + 1) + k, b)
    BY <2>1, PositionsTail
  <2> QED BY <1>1, <2>1, <2>2
<1>4. a + k \in a..b
  BY <1>1
<1> QED BY <1>2, <1>3, <1>4

\* appendCombinedSuffix: what is kept of two adjacent runs is a run that ends them.
LEMMA CombinedSuffixRun ==
  ASSUME NEW c, c.stream \in Seq(Nat), NEW a \in 0..Len(c.stream), NEW b \in a..Len(c.stream),
         NEW d \in b..Len(c.stream), NEW n \in Nat
  PROVE  \E k \in a..d :
           /\ CombinedSuffix(c, Positions(a + 1, b), Positions(b + 1, d), n) = Positions(k + 1, d)
           /\ Bytes(c, Positions(k + 1, d)) <= n
<1> DEFINE first == Positions(a + 1, b)
           second == Positions(b + 1, d)
<1>0. b \in 0..Len(c.stream)
  OBVIOUS
<1>1. Bytes(c, second) \in Nat
  BY <1>0, RunType
<1>2. CASE Bytes(c, second) >= n
  <2>1. CombinedSuffix(c, first, second, n) = SuffixView(c, second, n)
    BY <1>2 DEF CombinedSuffix
  <2>2. PICK k \in b..d : SuffixView(c, second, n) = Positions(k + 1, d)
                          /\ Bytes(c, Positions(k + 1, d)) <= n
    BY <1>0, RunSuffix
  <2>3. k \in a..d
    OBVIOUS
  <2> QED BY <2>1, <2>2, <2>3
<1>3. CASE ~ (Bytes(c, second) >= n)
  <2> DEFINE m == n - Bytes(c, second)
  <2>1. m \in Nat
    BY <1>1, <1>3
  <2>2. CombinedSuffix(c, first, second, n) = SuffixView(c, first, m) \o second
    BY <1>3 DEF CombinedSuffix
  <2>3. PICK k \in a..b : SuffixView(c, first, m) = Positions(k + 1, b)
                          /\ Bytes(c, Positions(k + 1, b)) <= m
    <3> HIDE DEF m
    <3> QED BY <2>1, RunSuffix
  <2>4. k \in 0..Len(c.stream) /\ b \in k..Len(c.stream) /\ k \in a..d
    BY <1>0
  <2>5. Positions(k + 1, b) \o second = Positions(k + 1, d)
        /\ Bytes(c, Positions(k + 1, d)) = Bytes(c, Positions(k + 1, b)) + Bytes(c, second)
    BY <2>4, RunSplit
  <2>6. Bytes(c, Positions(k + 1, b)) \in Nat
    BY <2>4, RunType
  <2>7. Bytes(c, Positions(k + 1, d)) <= n
    BY <1>1, <2>3, <2>5, <2>6
  <2> QED BY <2>2, <2>3, <2>4, <2>5, <2>7
<1> QED BY <1>2, <1>3

\* A head and a tail that together are smaller than the stream do not overlap.
LEMMA EndsApart ==
  ASSUME NEW c, c.stream \in Seq(Nat), NEW h \in 0..Len(c.stream), NEW j \in 0..Len(c.stream),
         NEW m \in Nat, NEW n \in Nat, Bytes(c, Positions(0 + 1, h)) <= m,
         Bytes(c, Positions(j + 1, Len(c.stream))) <= n,
         m + n < Bytes(c, Positions(0 + 1, Len(c.stream)))
  PROVE  h <= j
<1> DEFINE N == Len(c.stream)
           B(a, b) == Bytes(c, Positions(a + 1, b))
<1> SUFFICES ASSUME j < h
             PROVE  FALSE
  OBVIOUS
<1>1. N \in Nat /\ 0 \in 0..N /\ h \in j..N /\ N \in h..N /\ h \in 0..N /\ N \in j..N
  OBVIOUS
<1>2. B(0, N) = B(0, h) + B(h, N)
  BY <1>1, RunSplit
<1>3. B(j, N) = B(j, h) + B(h, N)
  BY <1>1, RunSplit
<1>4. B(0, h) \in Nat /\ B(h, N) \in Nat /\ B(j, h) \in Nat
  BY <1>1, RunType
<1>5. B(0, h) <= m /\ B(j, N) <= n /\ m + n < B(0, N)
  OBVIOUS
<1> HIDE DEF B
<1> QED BY <1>2, <1>3, <1>4, <1>5

(***************************************************************************)
(* The collector's steps.                                                  *)
(***************************************************************************)
WithWindow(c, w, h, o) == [c EXCEPT !.window = w, !.head = h, !.omitted = o]
Omitting(c, w, h) == [c EXCEPT !.window = w, !.head = h, !.omitted = TRUE]
Keeping(c, w, h) == [c EXCEPT !.window = w, !.head = h]
Grown(c, units) == [c EXCEPT !.stream = @ \o units]

\* What a step leaves alone.
SameCollector(c, d) ==
  d.mode = c.mode /\ d.state = c.state /\ d.pending = c.pending /\ d.budget = c.budget

LEMMA WithWindowType ==
  ASSUME NEW c, IsCollector(c), NEW w \in Seq(WindowOf(c)), NEW h \in Nat, NEW o \in BOOLEAN,
         NEW d, d = WithWindow(c, w, h, o)
  PROVE  /\ IsCollector(d) /\ SameCollector(c, d) /\ d.stream = c.stream
         /\ d.window = w /\ d.head = h /\ d.omitted = o
<1>1. w \in Seq(Nat)
  <2>1. WindowOf(c) \subseteq Nat
    BY DEF WindowOf
  <2> QED BY <2>1
<1>2. d \in Collectors
  BY <1>1 DEF IsCollector, Collectors, WithWindow
<1>3. SameCollector(c, d) /\ d.stream = c.stream /\ d.window = w /\ d.head = h /\ d.omitted = o
  BY DEF IsCollector, Collectors, WithWindow, SameCollector
<1>4. d.window \in Seq(WindowOf(d))
  BY <1>3 DEF WindowOf
<1>5. IsCollector(d)
  BY <1>2, <1>4 DEF IsCollector
<1> QED BY <1>3, <1>5

LEMMA OmittingType ==
  ASSUME NEW c, IsCollector(c), NEW w \in Seq(WindowOf(c)), NEW h \in Nat,
         NEW d, d = Omitting(c, w, h)
  PROVE  /\ IsCollector(d) /\ SameCollector(c, d) /\ d.stream = c.stream
         /\ d.window = w /\ d.head = h /\ d.omitted
<1>1. w \in Seq(Nat)
  <2>1. WindowOf(c) \subseteq Nat
    BY DEF WindowOf
  <2> QED BY <2>1
<1>2. d \in Collectors
  BY <1>1 DEF IsCollector, Collectors, Omitting
<1>3. SameCollector(c, d) /\ d.stream = c.stream /\ d.window = w /\ d.head = h /\ d.omitted
  BY DEF IsCollector, Collectors, Omitting, SameCollector
<1>4. d.window \in Seq(WindowOf(d))
  BY <1>3 DEF WindowOf
<1>5. IsCollector(d)
  BY <1>2, <1>4 DEF IsCollector
<1> QED BY <1>3, <1>5

LEMMA KeepingType ==
  ASSUME NEW c, IsCollector(c), NEW w \in Seq(WindowOf(c)), NEW h \in Nat,
         NEW d, d = Keeping(c, w, h)
  PROVE  /\ IsCollector(d) /\ SameCollector(c, d) /\ d.stream = c.stream
         /\ d.window = w /\ d.head = h /\ d.omitted = c.omitted
<1>1. w \in Seq(Nat)
  <2>1. WindowOf(c) \subseteq Nat
    BY DEF WindowOf
  <2> QED BY <2>1
<1>2. d \in Collectors
  BY <1>1 DEF IsCollector, Collectors, Keeping
<1>3. SameCollector(c, d) /\ d.stream = c.stream /\ d.window = w /\ d.head = h /\ d.omitted = c.omitted
  BY DEF IsCollector, Collectors, Keeping, SameCollector
<1>4. d.window \in Seq(WindowOf(d))
  BY <1>3 DEF WindowOf
<1>5. IsCollector(d)
  BY <1>2, <1>4 DEF IsCollector
<1> QED BY <1>3, <1>5

LEMMA CollectorFields ==
  ASSUME NEW c, IsCollector(c)
  PROVE  /\ c.stream \in Seq(Nat) /\ c.window \in Seq(WindowOf(c)) /\ c.window \in Seq(Nat)
         /\ c.head \in Nat /\ c.omitted \in BOOLEAN /\ c.budget \in Nat
         /\ c.pending \in Seq(RawBytes) /\ c.mode \in {"prefix", "headTail"}
         /\ Len(c.stream) \in Nat
BY DEF IsCollector, Collectors

LEMMA HalfOf ==
  ASSUME NEW n \in Nat
  PROVE  n \div 2 \in Nat /\ n - (n \div 2) \in Nat /\ (n \div 2) + (n - (n \div 2)) = n
<1>1. n \div 2 \in Nat /\ n \div 2 <= n
  OBVIOUS
<1> QED BY <1>1

LEMMA BudgetHalves ==
  ASSUME NEW c, c.budget \in Nat
  PROVE  HeadBudget(c) \in Nat /\ TailBudget(c) \in Nat
         /\ HeadBudget(c) + TailBudget(c) = c.budget
BY HalfOf DEF HeadBudget, TailBudget

LEMMA GrownType ==
  ASSUME NEW c, IsCollector(c), NEW units \in Seq(Nat), NEW g, g = Grown(c, units)
  PROVE  /\ IsCollector(g) /\ SameCollector(c, g) /\ g.stream = c.stream \o units
         /\ g.window = c.window /\ g.head = c.head /\ g.omitted = c.omitted
         /\ Len(g.stream) = Len(c.stream) + Len(units)
         /\ Bytes(g, g.window) = Bytes(c, c.window)
<1>1. c.stream \in Seq(Nat) /\ c.window \in Seq(WindowOf(c))
  BY CollectorFields
<1>2. c.stream \o units \in Seq(Nat) /\ Len(c.stream \o units) = Len(c.stream) + Len(units)
  BY <1>1, ConcatType
<1>3. g \in Collectors
  <2> DEFINE t == c.stream \o units
  <2>1. t \in Seq(Nat)
    BY <1>2
  <2> HIDE DEF t
  <2>2. [c EXCEPT !.stream = t] \in Collectors
    BY <2>1 DEF IsCollector, Collectors
  <2> QED BY <2>2 DEF Grown, t
<1>4. SameCollector(c, g) /\ g.stream = c.stream \o units /\ g.window = c.window
      /\ g.head = c.head /\ g.omitted = c.omitted
  BY DEF IsCollector, Collectors, Grown, SameCollector
<1>5. c.window \in Seq(WindowOf(g)) /\ Bytes(g, c.window) = Bytes(c, c.window)
  <2> DEFINE w == c.window
  <2>1. g.stream = c.stream \o units
    BY <1>4
  <2>2. c.stream \in Seq(Nat) /\ w \in Seq(WindowOf(c)) /\ units \in Seq(Nat)
    BY <1>1
  <2> HIDE DEF w
  <2>3. w \in Seq(WindowOf(g)) /\ Bytes(g, w) = Bytes(c, w)
    BY ONLY <2>1, <2>2, BytesGrown
  <2> QED BY <2>3 DEF w
<1>6. IsCollector(g)
  BY <1>3, <1>4, <1>5 DEF IsCollector
<1> QED BY <1>2, <1>4, <1>5, <1>6

\* Prefix mode: the window never passes the budget.
LEMMA AppendPrefixPlain ==
  ASSUME NEW g, IsCollector(g), WithinBudget(g), NEW new \in Seq(WindowOf(g)),
         NEW d, d = AppendPrefix(g, new)
  PROVE  IsCollector(d) /\ SameCollector(g, d) /\ d.stream = g.stream /\ WithinBudget(d)
<1> DEFINE need == g.budget - Bytes(g, g.window)
<1>1. /\ g.stream \in Seq(Nat) /\ g.window \in Seq(WindowOf(g)) /\ g.head \in Nat
      /\ g.omitted \in BOOLEAN /\ g.budget \in Nat
  BY CollectorFields
<1>2. Bytes(g, g.window) \in Nat
  BY <1>1, BytesType
<1>3. CASE need <= 0
  <2>1. d = Omitting(g, g.window, g.head)
    BY <1>3 DEF AppendPrefix, Omitting, IsCollector, Collectors
  <2>2. /\ IsCollector(d) /\ SameCollector(g, d) /\ d.stream = g.stream /\ d.window = g.window
    <3> DEFINE w == g.window
               h == g.head
    <3>2. w \in Seq(WindowOf(g)) /\ h \in Nat /\ IsCollector(g)
          /\ d = Omitting(g, w, h)
      BY <1>1, <2>1
    <3> HIDE DEF w, h
    <3>3. IsCollector(d) /\ SameCollector(g, d) /\ d.stream = g.stream /\ d.window = w
      BY ONLY <3>2, OmittingType
    <3> QED BY <3>3 DEF w
  <2>3. WithinBudget(d)
    BY <2>2 DEF WithinBudget, SameCollector, Bytes
  <2> QED BY <2>2, <2>3
<1>4. CASE ~ (need <= 0)
  <2>1. need \in Nat
    BY <1>1, <1>2, <1>4
  <2>2. PICK k \in 0..Len(new) : PrefixView(g, new, need) = SubSeq(new, 1, k)
                                 /\ Bytes(g, SubSeq(new, 1, k)) <= need
    <3> HIDE DEF need
    <3> QED BY <2>1, PrefixViewFits
  <2> DEFINE more == SubSeq(new, 1, k)
             w == g.window \o more
             o == g.omitted \/ Bytes(g, new) > need
  <2>3. more \in Seq(WindowOf(g))
    OBVIOUS
  <2>4. d = WithWindow(g, w, g.head, o)
    <3>1. d = [g EXCEPT !.window = @ \o more, !.omitted = @ \/ Bytes(g, new) > need]
      BY <1>4, <2>2 DEF AppendPrefix
    <3> HIDE DEF need, more
    <3> QED BY <3>1 DEF WithWindow, IsCollector, Collectors
  <2>5. w \in Seq(WindowOf(g)) /\ o \in BOOLEAN
    <3> HIDE DEF more, need
    <3>1. w \in Seq(WindowOf(g))
      BY <1>1, <2>3, ConcatType
    <3>2. o \in BOOLEAN
      OBVIOUS
    <3> QED BY <3>1, <3>2
  <2>6. Bytes(g, w) = Bytes(g, g.window) + Bytes(g, more) /\ Bytes(g, more) \in Nat
    <3> HIDE DEF more
    <3> QED BY <1>1, <2>3, BytesConcat, BytesType
  <2>7. Bytes(g, w) <= g.budget
    <3>1. Bytes(g, more) <= need
      BY <2>2
    <3> HIDE DEF w, more
    <3> QED BY <1>1, <1>2, <2>6, <3>1
  <2>8. /\ IsCollector(d) /\ SameCollector(g, d) /\ d.stream = g.stream /\ d.window = w
    <3> HIDE DEF w, o
    <3> QED BY <1>1, <2>4, <2>5, WithWindowType
  <2>9. WithinBudget(d)
    <3> HIDE DEF w
    <3> QED BY <2>7, <2>8 DEF WithinBudget, SameCollector, Bytes
  <2> QED BY <2>8, <2>9
<1> QED BY <1>3, <1>4

\* The head of two adjacent runs (appendHeadTail).
CombinedPrefix(c, first, second, n) ==
  IF Bytes(c, first) >= n THEN PrefixView(c, first, n)
  ELSE first \o PrefixView(c, second, n - Bytes(c, first))

LEMMA CombinedPrefixRun ==
  ASSUME NEW c, c.stream \in Seq(Nat), NEW a \in 0..Len(c.stream), NEW b \in a..Len(c.stream),
         NEW d \in b..Len(c.stream), NEW n \in Nat
  PROVE  \E k \in a..d :
           /\ CombinedPrefix(c, Positions(a + 1, b), Positions(b + 1, d), n) = Positions(a + 1, k)
           /\ Bytes(c, Positions(a + 1, k)) <= n
<1> DEFINE first == Positions(a + 1, b)
           second == Positions(b + 1, d)
<1>0. b \in 0..Len(c.stream)
  OBVIOUS
<1>1. Bytes(c, first) \in Nat
  BY RunType
<1>2. CASE Bytes(c, first) >= n
  <2>1. PICK k \in a..b : PrefixView(c, first, n) = Positions(a + 1, k)
                          /\ Bytes(c, Positions(a + 1, k)) <= n
    BY RunPrefix
  <2>2. k \in a..d
    OBVIOUS
  <2> QED BY <1>2, <2>1, <2>2 DEF CombinedPrefix
<1>3. CASE ~ (Bytes(c, first) >= n)
  <2> DEFINE m == n - Bytes(c, first)
  <2>1. m \in Nat
    BY <1>1, <1>3
  <2>2. PICK k \in b..d : PrefixView(c, second, m) = Positions(b + 1, k)
                          /\ Bytes(c, Positions(b + 1, k)) <= m
    <3> HIDE DEF m
    <3> QED BY <1>0, <2>1, RunPrefix
  <2>3. k \in b..Len(c.stream) /\ k \in a..d
    BY <1>0
  <2>4. first \o Positions(b + 1, k) = Positions(a + 1, k)
        /\ Bytes(c, Positions(a + 1, k)) = Bytes(c, first) + Bytes(c, Positions(b + 1, k))
    BY <2>3, RunSplit
  <2>5. Bytes(c, Positions(b + 1, k)) \in Nat
    BY <1>0, <2>3, RunType
  <2>6. Bytes(c, Positions(a + 1, k)) <= n
    BY <1>1, <2>2, <2>4, <2>5
  <2> QED BY <1>3, <2>2, <2>3, <2>4, <2>6 DEF CombinedPrefix
<1> QED BY <1>2, <1>3

LEMMA CutConcat ==
  ASSUME NEW S, NEW s \in Seq(S), NEW t \in Seq(S)
  PROVE  SubSeq(s \o t, 1, Len(s)) = s /\ SubSeq(s \o t, Len(s) + 1, Len(s \o t)) = t
<1> DEFINE st == s \o t
           u == SubSeq(st, 1, Len(s))
           v == SubSeq(st, Len(s) + 1, Len(st))
<1>1. st \in Seq(S) /\ Len(st) = Len(s) + Len(t) /\ Len(s) \in Nat /\ Len(t) \in Nat
  BY ConcatType
<1>2. \A i \in 1..Len(s) : st[i] = s[i]
  OBVIOUS
<1>3. \A i \in 1..Len(t) : st[Len(s) + i] = t[i]
  OBVIOUS
<1> HIDE DEF st
<1>4. u \in Seq(S) /\ Len(u) = Len(s) /\ \A i \in 1..Len(s) : u[i] = st[i]
  BY <1>1
<1>5. v \in Seq(S) /\ Len(v) = Len(t) /\ \A i \in 1..Len(t) : v[i] = st[Len(s) + i]
  <2>1. Len(st) - (Len(s) + 1) + 1 = Len(t)
    BY <1>1
  <2> QED BY <1>1, <2>1
<1> HIDE DEF u, v
<1>6. u = s
  BY <1>2, <1>4, SeqExtensional
<1>7. v = t
  BY <1>3, <1>5, SeqExtensional
<1> QED BY <1>6, <1>7 DEF u, v, st

\* What has to be shown of a window with an omission.
LEMMA EndsArePlain ==
  ASSUME NEW d, IsCollector(d), d.budget # 0, d.omitted, NEW h, NEW j \in 0..Len(d.stream),
         h \in 0..j, d.head = h, d.window = Positions(1, h) \o Positions(j + 1, Len(d.stream)),
         Bytes(d, Positions(1, h)) <= HeadBudget(d),
         Bytes(d, Positions(j + 1, Len(d.stream))) <= TailBudget(d)
  PROVE  PlainWindow(d)
<1>1. j \in d.head..Len(d.stream) /\ d.head <= Len(d.stream)
  OBVIOUS
<1>2. KeepsEnds(d, Positions(j + 1, Len(d.stream)))
  BY <1>1 DEF KeepsEnds
<1> QED BY <1>1, <1>2 DEF PlainWindow

\* A collector whose stream has grown from n, before its window is moved.
HeldBefore(g, n) ==
  /\ g.budget = 0 => g.window = <<>> /\ g.head = 0
  /\ ~g.omitted => g.window = Positions(1, n)
  /\ g.omitted => \E j \in g.head..n : g.window = Positions(1, g.head) \o Positions(j + 1, n)
                                       /\ Bytes(g, Positions(1, g.head)) <= HeadBudget(g)

\* Without a budget nothing is kept.
LEMMA NothingKept ==
  ASSUME NEW g, IsCollector(g), g.budget = 0, g.window = <<>>, g.head = 0,
         NEW d, d = Omitting(g, g.window, g.head)
  PROVE  IsCollector(d) /\ SameCollector(g, d) /\ d.stream = g.stream /\ PlainWindow(d)
<1> DEFINE w == g.window
           h == g.head
           N == Len(g.stream)
<1>1. w \in Seq(WindowOf(g)) /\ h \in Nat /\ N \in Nat
  BY CollectorFields
<1>2. d = Omitting(g, w, h)
  OBVIOUS
<1> HIDE DEF w, h
<1>3. /\ IsCollector(d) /\ SameCollector(g, d) /\ d.stream = g.stream
      /\ d.window = w /\ d.head = h /\ d.omitted
  BY <1>1, <1>2, OmittingType
<1>4. w = <<>> /\ h = 0
  BY DEF w, h
<1>5. Positions(1, 0) = <<>> /\ Positions(N + 1, N) = <<>>
  <2>1. 0 - 1 + 1 = 0 /\ N - (N + 1) + 1 = 0
    BY <1>1
  <2>2. Positions(1, 0) = [i \in 1..0 |-> 1 + i - 1]
    BY <2>1 DEF Positions
  <2>3. Positions(N + 1, N) = [i \in 1..0 |-> N + 1 + i - 1]
    BY <2>1 DEF Positions
  <2> QED BY <2>2, <2>3
<1>6. Bytes(d, <<>>) = 0
  BY BytesEmpty
<1>7. HeadBudget(d) \in Nat /\ TailBudget(d) \in Nat
  <2>1. d.budget \in Nat
    BY <1>3, CollectorFields
  <2> QED BY <2>1, BudgetHalves
<1>8. <<>> = Positions(1, 0) \o Positions(N + 1, N)
  BY <1>5
<1>9. KeepsEnds(d, Positions(N + 1, N))
  <2>1. d.window = Positions(1, d.head) \o Positions(N + 1, N)
    BY <1>3, <1>4, <1>8
  <2>2. d.head <= Len(d.stream)
    BY <1>1, <1>3, <1>4
  <2>3. Bytes(d, Positions(1, d.head)) <= HeadBudget(d)
    BY <1>3, <1>4, <1>5, <1>6, <1>7
  <2>4. Bytes(d, Positions(N + 1, N)) <= TailBudget(d)
    BY <1>5, <1>6, <1>7
  <2> QED BY <2>1, <2>2, <2>3, <2>4 DEF KeepsEnds
<1>10. N \in d.head..Len(d.stream) /\ Len(d.stream) = N
  BY <1>1, <1>3, <1>4
<1>11. PlainWindow(d)
  BY <1>3, <1>4, <1>9, <1>10 DEF PlainWindow
<1> QED BY <1>3, <1>11

\* With room for everything, everything is kept.
LEMMA RoomForAll ==
  ASSUME NEW g, IsCollector(g), g.budget # 0, ~g.omitted, NEW n \in 0..Len(g.stream),
         g.window = Positions(1, n),
         Bytes(g, g.window \o Positions(n + 1, Len(g.stream))) <= g.budget,
         NEW d, d = Keeping(g, g.window \o Positions(n + 1, Len(g.stream)),
                            Len(g.window \o Positions(n + 1, Len(g.stream))))
  PROVE  IsCollector(d) /\ SameCollector(g, d) /\ d.stream = g.stream /\ PlainWindow(d)
<1> DEFINE N == Len(g.stream)
           all == Positions(1, N)
<1>1. g.stream \in Seq(Nat) /\ N \in Nat /\ 0 \in 0..N /\ n \in 0..N /\ N \in n..N /\ 0 + 1 = 1
  BY CollectorFields
<1>2. g.window \o Positions(n + 1, N) = all
  <2>1. Positions(0 + 1, n) \o Positions(n + 1, N) = Positions(0 + 1, N)
    BY <1>1, RunSplit
  <2> QED BY <1>1, <2>1
<1>3. all \in Seq(WindowOf(g)) /\ Len(all) = N
  <2>1. N \in 0..N
    BY <1>1
  <2>2. Positions(0 + 1, N) \in Seq(WindowOf(g)) /\ Len(Positions(0 + 1, N)) = N - 0
    BY <1>1, <2>1, RunType
  <2> QED BY <1>1, <2>2
<1>4. d = Keeping(g, all, N) /\ Bytes(g, all) <= g.budget
  BY <1>2, <1>3
<1> HIDE DEF all
<1>5. /\ IsCollector(d) /\ SameCollector(g, d) /\ d.stream = g.stream
      /\ d.window = all /\ d.head = N /\ d.omitted = g.omitted
  BY <1>1, <1>3, <1>4, KeepingType
<1>6. WithinBudget(d)
  BY <1>4, <1>5 DEF WithinBudget, SameCollector, Bytes
<1>7. PlainWindow(d)
  BY <1>5, <1>6 DEF PlainWindow, KeepsAll, SameCollector, all
<1> QED BY <1>5, <1>7

\* The first write past the budget: a head and a tail that do not overlap.
LEMMA SplitKeepsEnds ==
  ASSUME NEW g, IsCollector(g), g.budget # 0, NEW n \in 0..Len(g.stream),
         g.window = Positions(1, n),
         ~ (Bytes(g, g.window \o Positions(n + 1, Len(g.stream))) <= g.budget),
         NEW d, d = SplitWindow(g, Positions(n + 1, Len(g.stream)))
  PROVE  IsCollector(d) /\ SameCollector(g, d) /\ d.stream = g.stream /\ PlainWindow(d)
<1> DEFINE N == Len(g.stream)
           old == Positions(0 + 1, n)
           new == Positions(n + 1, N)
           H == HeadBudget(g)
           T == TailBudget(g)
<1>1. /\ g.stream \in Seq(Nat) /\ N \in Nat /\ g.budget \in Nat /\ 0 \in 0..N /\ n \in 0..N
      /\ N \in n..N /\ N \in 0..N /\ 0 + 1 = 1
  BY CollectorFields
<1>2. H \in Nat /\ T \in Nat /\ H + T = g.budget
  BY <1>1, BudgetHalves
<1>3. g.window = old
  BY <1>1
<1>4. old \o new = Positions(0 + 1, N)
  BY <1>1, RunSplit
<1>5. H + T < Bytes(g, Positions(0 + 1, N))
  <2>1. Bytes(g, Positions(0 + 1, N)) \in Nat
    BY <1>1, RunType
  <2>2. ~ (Bytes(g, Positions(0 + 1, N)) <= g.budget)
    BY <1>3, <1>4
  <2> QED BY <1>1, <1>2, <2>1, <2>2
<1> HIDE DEF H, T
<1>6. PICK h \in 0..N : /\ CombinedPrefix(g, old, new, H) = Positions(0 + 1, h)
                        /\ Bytes(g, Positions(0 + 1, h)) <= H
  BY <1>1, <1>2, CombinedPrefixRun
<1>7. PICK j \in 0..N : /\ CombinedSuffix(g, old, new, T) = Positions(j + 1, N)
                        /\ Bytes(g, Positions(j + 1, N)) <= T
  BY <1>1, <1>2, CombinedSuffixRun
<1>8. h <= j
  BY <1>1, <1>2, <1>5, <1>6, <1>7, EndsApart
<1> DEFINE head == Positions(0 + 1, h)
           tail == Positions(j + 1, N)
           w == head \o tail
<1>9. head \in Seq(WindowOf(g)) /\ Len(head) = h /\ tail \in Seq(WindowOf(g))
  <2>1. h \in 0..N /\ j \in 0..N /\ N \in j..N /\ h - 0 = h
    BY <1>1
  <2> QED BY <1>1, <2>1, RunType
<1>10. d = Omitting(g, w, h)
  <2>1. head = IF Bytes(g, g.window) >= HeadBudget(g) THEN PrefixView(g, g.window, HeadBudget(g))
               ELSE g.window \o PrefixView(g, new, HeadBudget(g) - Bytes(g, g.window))
    BY <1>3, <1>6 DEF H, CombinedPrefix
  <2>2. tail = CombinedSuffix(g, g.window, new, TailBudget(g))
    BY <1>3, <1>7 DEF T
  <2> HIDE DEF head, tail, new
  <2>3. SplitWindow(g, new) = [g EXCEPT !.head = Len(head), !.omitted = TRUE,
                                         !.window = head \o tail]
    BY <2>1, <2>2, Zenon DEF SplitWindow
  <2>4. d = SplitWindow(g, new)
    BY DEF new
  <2> QED BY <1>9, <2>3, <2>4 DEF Omitting, IsCollector, Collectors
<1>11. w \in Seq(WindowOf(g)) /\ h \in Nat
  <2> HIDE DEF head, tail
  <2> QED BY <1>1, <1>9, ConcatType
<1>12. /\ IsCollector(d) /\ SameCollector(g, d) /\ d.stream = g.stream
       /\ d.window = w /\ d.head = h /\ d.omitted
  <2> HIDE DEF w
  <2> QED BY <1>10, <1>11, OmittingType
<1>13. PlainWindow(d)
  <2>1. Bytes(d, Positions(1, h)) <= HeadBudget(d)
    BY <1>1, <1>6, <1>12 DEF H, HeadBudget, SameCollector, Bytes
  <2>2. Bytes(d, Positions(j + 1, Len(d.stream))) <= TailBudget(d)
    BY <1>7, <1>12 DEF T, HeadBudget, TailBudget, SameCollector, Bytes
  <2>3. d.window = Positions(1, h) \o Positions(j + 1, Len(d.stream))
    BY <1>1, <1>12
  <2>4. d.budget # 0 /\ j \in 0..Len(d.stream) /\ h \in 0..j
    BY <1>1, <1>8, <1>12 DEF SameCollector
  <2> QED BY <1>12, <2>1, <2>2, <2>3, <2>4, EndsArePlain
<1> QED BY <1>12, <1>13

\* Later writes move the tail only.
LEMMA MoveKeepsEnds ==
  ASSUME NEW g, IsCollector(g), g.budget # 0, g.omitted, NEW n \in 0..Len(g.stream),
         NEW j \in g.head..n, g.window = Positions(1, g.head) \o Positions(j + 1, n),
         Bytes(g, Positions(1, g.head)) <= HeadBudget(g),
         NEW d, d = MoveTail(g, Positions(n + 1, Len(g.stream)))
  PROVE  IsCollector(d) /\ SameCollector(g, d) /\ d.stream = g.stream /\ PlainWindow(d)
<1> DEFINE N == Len(g.stream)
           h == g.head
           head == Positions(0 + 1, h)
           old == Positions(j + 1, n)
           new == Positions(n + 1, N)
           T == TailBudget(g)
<1>1. /\ g.stream \in Seq(Nat) /\ N \in Nat /\ g.budget \in Nat /\ h \in Nat /\ 0 + 1 = 1
      /\ j \in 0..N /\ n \in j..N /\ N \in n..N /\ 0 \in 0..N /\ h \in 0..N /\ h \in 0..j
  <2>1. g.stream \in Seq(Nat) /\ N \in Nat /\ g.budget \in Nat /\ h \in Nat
    BY CollectorFields
  <2> QED BY <2>1
<1>2. T \in Nat
  BY <1>1, BudgetHalves
<1>3. /\ head \in Seq(WindowOf(g)) /\ Len(head) = h /\ old \in Seq(WindowOf(g))
  <2>1. h - 0 = h
    BY <1>1
  <2> QED BY <1>1, <2>1, RunType
<1>4. g.window = head \o old
  BY <1>1
<1>5. SubSeq(g.window, 1, h) = head /\ SubSeq(g.window, h + 1, Len(g.window)) = old
  <2> HIDE DEF head, old, h
  <2>1. SubSeq(head \o old, 1, Len(head)) = head
        /\ SubSeq(head \o old, Len(head) + 1, Len(head \o old)) = old
    BY <1>3, CutConcat
  <2>2. Len(head) = h
    BY <1>3
  <2> QED BY <1>4, <2>1, <2>2, Zenon
<1>6. PICK k \in j..N : /\ CombinedSuffix(g, old, new, T) = Positions(k + 1, N)
                        /\ Bytes(g, Positions(k + 1, N)) <= T
  <2> HIDE DEF T, h, head
  <2> QED BY <1>1, <1>2, CombinedSuffixRun
<1> DEFINE tail == Positions(k + 1, N)
           w == head \o tail
<1>7. tail \in Seq(WindowOf(g)) /\ k \in 0..N /\ h \in 0..k
  <2>1. k \in 0..N /\ N \in k..N /\ h \in 0..k
    BY <1>1
  <2> QED BY <1>1, <2>1, RunType
<1>8. d = Omitting(g, w, h)
  <2>1. d = [g EXCEPT !.window = SubSeq(g.window, 1, g.head)
                        \o CombinedSuffix(g, SubSeq(g.window, g.head + 1, Len(g.window)),
                                          new, TailBudget(g))]
    BY Zenon DEF MoveTail
  <2>2. d = [g EXCEPT !.window = head \o tail]
    BY <1>5, <1>6, <2>1, Zenon
  <2> HIDE DEF head, tail
  <2>3. g \in Collectors /\ g.omitted = TRUE
    BY DEF IsCollector, Collectors
  <2> QED BY <2>2, <2>3 DEF Omitting, Collectors
<1>9. w \in Seq(WindowOf(g))
  <2> HIDE DEF head, tail
  <2> QED BY <1>3, <1>7, ConcatType
<1>10. /\ IsCollector(d) /\ SameCollector(g, d) /\ d.stream = g.stream
       /\ d.window = w /\ d.head = h /\ d.omitted
  <2> HIDE DEF w, h
  <2> QED BY <1>1, <1>8, <1>9, OmittingType
<1>11. PlainWindow(d)
  <2>1. Bytes(d, Positions(1, h)) <= HeadBudget(d)
    BY <1>10 DEF HeadBudget, SameCollector, Bytes
  <2>2. Bytes(d, Positions(k + 1, Len(d.stream))) <= TailBudget(d)
    BY <1>6, <1>10 DEF HeadBudget, TailBudget, SameCollector, Bytes
  <2>3. d.window = Positions(1, h) \o Positions(k + 1, Len(d.stream))
    BY <1>1, <1>10
  <2>4. d.budget # 0 /\ k \in 0..Len(d.stream)
    BY <1>7, <1>10 DEF SameCollector
  <2> HIDE DEF h
  <2> QED BY <1>7, <1>10, <2>1, <2>2, <2>3, <2>4, EndsArePlain
<1> QED BY <1>10, <1>11

\* appendHeadTail, whatever its case.
LEMMA AppendHeadTailPlain ==
  ASSUME NEW g, IsCollector(g), NEW n \in 0..Len(g.stream), HeldBefore(g, n),
         NEW d, d = AppendHeadTail(g, Positions(n + 1, Len(g.stream)))
  PROVE  IsCollector(d) /\ SameCollector(g, d) /\ d.stream = g.stream /\ PlainWindow(d)
<1> DEFINE new == Positions(n + 1, Len(g.stream))
<1>1. g.budget \in Nat /\ g.omitted \in BOOLEAN /\ g \in Collectors
  BY CollectorFields DEF IsCollector
<1>2. CASE g.budget = 0
  <2>1. d = [g EXCEPT !.omitted = TRUE]
    BY <1>2 DEF AppendHeadTail
  <2>2. d = Omitting(g, g.window, g.head)
    BY <1>1, <2>1 DEF Omitting, Collectors
  <2>3. g.window = <<>> /\ g.head = 0
    BY <1>2 DEF HeldBefore
  <2> QED BY <1>2, <2>2, <2>3, NothingKept
<1>3. CASE g.budget # 0 /\ ~g.omitted /\ Bytes(g, g.window \o new) <= g.budget
  <2>1. ~ (g.budget <= 0)
    BY <1>1, <1>3
  <2>2. d = [g EXCEPT !.window = @ \o new, !.head = Len(g.window \o new)]
    BY <1>3, <2>1, Zenon DEF AppendHeadTail
  <2>3. d = Keeping(g, g.window \o new, Len(g.window \o new))
    BY <1>1, <2>2 DEF Keeping, Collectors
  <2>4. g.window = Positions(1, n)
    BY <1>3 DEF HeldBefore
  <2> QED BY <1>3, <2>3, <2>4, RoomForAll
<1>4. CASE g.budget # 0 /\ ~g.omitted /\ ~ (Bytes(g, g.window \o new) <= g.budget)
  <2>1. ~ (g.budget <= 0)
    BY <1>1, <1>4
  <2>2. d = SplitWindow(g, new)
    BY <1>4, <2>1, Zenon DEF AppendHeadTail
  <2>3. g.window = Positions(1, n)
    BY <1>4 DEF HeldBefore
  <2> QED BY <1>4, <2>2, <2>3, SplitKeepsEnds
<1>5. CASE g.budget # 0 /\ g.omitted
  <2>1. ~ (g.budget <= 0)
    BY <1>1, <1>5
  <2>2. d = MoveTail(g, new)
    BY <1>5, <2>1, Zenon DEF AppendHeadTail
  <2>3. PICK j \in g.head..n : g.window = Positions(1, g.head) \o Positions(j + 1, n)
                               /\ Bytes(g, Positions(1, g.head)) <= HeadBudget(g)
    BY <1>5 DEF HeldBefore
  <2> QED BY <1>5, <2>2, <2>3, MoveKeepsEnds
<1> QED BY <1>1, <1>2, <1>3, <1>4, <1>5

LEMMA GrownHeld ==
  ASSUME NEW c, IsCollector(c), PlainWindow(c), NEW units \in Seq(Nat),
         NEW g, g = Grown(c, units)
  PROVE  HeldBefore(g, Len(c.stream))
<1> DEFINE n == Len(c.stream)
<1>1. /\ IsCollector(g) /\ SameCollector(c, g) /\ g.stream = c.stream \o units
      /\ g.window = c.window /\ g.head = c.head /\ g.omitted = c.omitted
  BY GrownType
<1>2. g.budget = 0 => g.window = <<>> /\ g.head = 0
  BY <1>1 DEF PlainWindow, SameCollector
<1>3. ~g.omitted => g.window = Positions(1, n)
  BY <1>1 DEF PlainWindow, KeepsAll
<1>4. ASSUME g.omitted
      PROVE  \E j \in g.head..n : g.window = Positions(1, g.head) \o Positions(j + 1, n)
                                  /\ Bytes(g, Positions(1, g.head)) <= HeadBudget(g)
  <2>1. PICK j \in c.head..n : KeepsEnds(c, Positions(j + 1, n))
    BY <1>1, <1>4 DEF PlainWindow
  <2>2. c.stream \in Seq(Nat) /\ c.head \in Nat /\ n \in Nat
    BY CollectorFields
  <2> DEFINE w == Positions(1, c.head)
  <2>3. w \in Seq(WindowOf(c))
    <3>1. 0 \in 0..n /\ c.head \in 0..n /\ 0 + 1 = 1
      BY <2>1, <2>2
    <3>2. Positions(0 + 1, c.head) \in Seq(WindowOf(c))
      BY <2>2, <3>1, RunType
    <3> QED BY <3>1, <3>2
  <2>4. Bytes(g, w) = Bytes(c, w)
    <3>1. g.stream = c.stream \o units
      BY <1>1
    <3> HIDE DEF w
    <3>2. c.stream \in Seq(Nat) /\ w \in Seq(WindowOf(c)) /\ units \in Seq(Nat)
      BY <2>2, <2>3
    <3>3. w \in Seq(WindowOf(g)) /\ Bytes(g, w) = Bytes(c, w)
      BY ONLY <3>1, <3>2, BytesGrown
    <3> QED BY <3>3
  <2>5. Bytes(c, w) <= HeadBudget(c) /\ HeadBudget(g) = HeadBudget(c)
    BY <1>1, <2>1 DEF KeepsEnds, HeadBudget, SameCollector
  <2>6. c.window = Positions(1, c.head) \o Positions(j + 1, n)
    BY <2>1 DEF KeepsEnds
  <2> QED BY <1>1, <2>1, <2>4, <2>5, <2>6
<1> QED BY <1>2, <1>3, <1>4 DEF HeldBefore

\* What fits is kept whole.
LEMMA PrefixViewAll ==
  ASSUME NEW c, NEW S, NEW s \in Seq(S), NEW n \in Nat, Bytes(c, s) <= n
  PROVE  PrefixView(c, s, n) = s
<1> DEFINE T == {k \in 0..Len(s) : k = 0 \/ Bytes(c, SubSeq(s, 1, k)) <= n}
<1>1. SubSeq(s, 1, Len(s)) = s /\ Len(s) \in Nat
  BY SubSeqFull, LenProperties
<1>2. T \subseteq Nat /\ Len(s) \in T /\ \A k \in T : k <= Len(s)
  <2>1. Bytes(c, SubSeq(s, 1, Len(s))) <= n
    BY <1>1, Zenon
  <2>2. Len(s) \in 0..Len(s)
    BY <1>1
  <2>3. Len(s) \in T
    BY <2>1, <2>2, Zenon
  <2> QED BY <1>1, <2>3
<1>3. PrefixView(c, s, n) = SubSeq(s, 1, Max(T))
  BY DEF PrefixView
<1> HIDE DEF T
<1>4. T # {}
  BY <1>2
<1>5. Max(T) \in T /\ \A x \in T : x <= Max(T)
  BY <1>1, <1>2, <1>4, MaxOf
<1>6. Max(T) = Len(s)
  <2> DEFINE m == Max(T)
  <2>1. m \in T /\ Len(s) <= m
    BY <1>2, <1>5
  <2> HIDE DEF m
  <2>2. m \in Nat /\ m <= Len(s)
    BY <1>2, <2>1
  <2>3. m = Len(s)
    <3>1. Len(s) \in Nat
      BY <1>1
    <3> QED BY ONLY <2>1, <2>2, <3>1
  <2> QED BY <2>3 DEF m
<1> QED BY <1>1, <1>3, <1>6

\* Prefix mode: what is marked as left out is missing from the window.
LEMMA AppendPrefixLost ==
  ASSUME NEW c, IsCollector(c), Lost(c), NEW units \in Seq(Nat), units # <<>>,
         NEW d, d = AppendPrefix(Grown(c, units),
                                 Positions(Len(c.stream) + 1, Len(Grown(c, units).stream)))
  PROVE  Lost(d)
<1> DEFINE g == Grown(c, units)
           n == Len(c.stream)
           N == Len(g.stream)
           new == Positions(n + 1, N)
           need == g.budget - Bytes(g, g.window)
<1>1. d = AppendPrefix(g, new) /\ g = Grown(c, units)
  OBVIOUS
<1> HIDE DEF g
<1>2. /\ IsCollector(g) /\ g.window = c.window /\ g.omitted = c.omitted
      /\ N = n + Len(units) /\ n \in Nat /\ g.budget \in Nat
      /\ g.window \in Seq(WindowOf(g)) /\ g.stream \in Seq(Nat) /\ g \in Collectors
      /\ Len(g.window) \in Nat /\ g.omitted \in BOOLEAN
  <2>1. /\ IsCollector(g) /\ g.window = c.window /\ g.omitted = c.omitted
        /\ N = n + Len(units)
    BY <1>1, GrownType
  <2> HIDE DEF n, N
  <2>2. n \in Nat
    BY CollectorFields DEF n
  <2>3. /\ g.budget \in Nat /\ g.window \in Seq(WindowOf(g)) /\ g.stream \in Seq(Nat)
        /\ g \in Collectors /\ g.omitted \in BOOLEAN
    BY <2>1, CollectorFields DEF IsCollector
  <2>4. Len(g.window) \in Nat
    BY <2>3, LenProperties
  <2> QED BY <2>1, <2>2, <2>3, <2>4
<1>3. Len(units) \in Nat /\ Len(units) > 0
  BY LenProperties, EmptySeq
<1> HIDE DEF N, n
<1>4. N \in Nat /\ n < N /\ n + 1 \in Nat /\ n + 1 <= N + 1 /\ N - (n + 1) + 1 = N - n
  BY <1>2, <1>3
<1>5. new \in Seq(Nat) /\ Len(new) = N - n
  BY <1>4, PositionsType
<1>6. /\ g.omitted => Len(g.window) < n
      /\ ~g.omitted => g.window = Positions(1, n)
      /\ Len(g.window) <= n
  <2>1. Len(Positions(1, n)) = n
    <3>1. 1 \in Nat /\ 1 <= n + 1 /\ n - 1 + 1 = n
      BY <1>2
    <3> QED BY <1>2, <3>1, PositionsType
  <2>2. /\ g.omitted => Len(g.window) < n
        /\ ~g.omitted => g.window = Positions(1, n)
    BY <1>2 DEF Lost, n
  <2> QED BY <1>2, <2>1, <2>2
<1>7. Bytes(g, g.window) \in Nat
  BY <1>2, BytesType
<1>8. CASE need <= 0
  <2>1. d = [g EXCEPT !.omitted = TRUE]
    BY <1>1, <1>8 DEF AppendPrefix
  <2>2. d.omitted /\ d.window = g.window /\ d.stream = g.stream
    BY <1>2, <2>1 DEF Collectors
  <2>3. Len(g.window) < N
    BY <1>2, <1>4, <1>6
  <2> QED BY <2>2, <2>3 DEF Lost, N
<1>9. CASE ~ (need <= 0)
  <2>1. need \in Nat
    BY <1>2, <1>7, <1>9
  <2> DEFINE more == PrefixView(g, new, need)
             over == Bytes(g, new) > need
  <2>2. d = [g EXCEPT !.window = @ \o more, !.omitted = @ \/ over]
    BY <1>1, <1>9 DEF AppendPrefix
  <2>3. d.window = g.window \o more /\ d.omitted = (g.omitted \/ over) /\ d.stream = g.stream
    <3> HIDE DEF more, over
    <3> QED BY <1>2, <2>2 DEF Collectors
  <2>4. PICK k \in 0..Len(new) : more = SubSeq(new, 1, k) /\ Bytes(g, SubSeq(new, 1, k)) <= need
    <3> HIDE DEF need, new
    <3> QED BY <1>5, <2>1, PrefixViewFits
  <2>5. more \in Seq(Nat) /\ Len(more) = k
    <3> HIDE DEF new, more
    <3> QED BY <1>5, <2>4
  <2>6. Len(d.window) = Len(g.window) + k
    <3>1. g.window \in Seq(Nat)
      BY <1>2 DEF Collectors
    <3> HIDE DEF more
    <3> QED BY <2>3, <2>5, <3>1, ConcatType
  <2>7. CASE over
    <3>1. k # Len(new)
      <4> SUFFICES ASSUME k = Len(new)
                   PROVE  FALSE
        OBVIOUS
      <4> HIDE DEF new, more
      <4>1. SubSeq(new, 1, k) = new
        BY <1>5, SubSeqFull
      <4>2. Bytes(g, new) <= need
        BY <2>4, <4>1
      <4>3. Bytes(g, new) \in Nat
        <5>1. new \in Seq(WindowOf(g))
          <6>1. n \in 0..N /\ N \in n..N
            BY <1>2, <1>4
          <6> QED BY <1>2, <6>1, RunType DEF new, N
        <5> QED BY <1>2, <5>1, BytesType
      <4> HIDE DEF need
      <4> QED BY <2>1, <2>7, <4>2, <4>3
    <3>2. Len(d.window) < N
      <4> DEFINE a == Len(g.window)
                 b == Len(new)
      <4>1. /\ a \in Nat /\ N \in Nat /\ n \in Nat /\ n < N /\ b = N - n /\ a <= n
            /\ k \in 0..b /\ k # b /\ Len(d.window) = a + k
        BY <1>2, <1>4, <1>5, <1>6, <2>6, <3>1
      <4> HIDE DEF a, b
      <4> QED BY ONLY <4>1
    <3> QED BY <2>3, <2>7, <3>2 DEF Lost, N
  <2>8. CASE ~over
    <3>1. Bytes(g, new) <= need
      <4>1. Bytes(g, new) \in Nat
        <5>1. new \in Seq(WindowOf(g))
          <6>1. n \in 0..N /\ N \in n..N
            BY <1>2, <1>4
          <6> QED BY <1>2, <6>1, RunType DEF new, N
        <5> QED BY <1>2, <5>1, BytesType
      <4> HIDE DEF need
      <4> QED BY <2>1, <2>8, <4>1
    <3>2. more = new
      <4> HIDE DEF need, new
      <4> QED BY <1>5, <2>1, <3>1, PrefixViewAll
    <3>3. CASE g.omitted
      <4>1. Len(d.window) = Len(g.window) + (N - n)
        <5> HIDE DEF new, more
        <5> QED BY <1>5, <2>5, <2>6, <3>2
      <4>2. Len(d.window) < N
        BY <1>2, <1>4, <1>6, <3>3, <4>1
      <4> QED BY <2>3, <3>3, <4>2 DEF Lost, N
    <3>4. CASE ~g.omitted
      <4>1. Positions(1, n) \o Positions(n + 1, N) = Positions(1, N)
        <5>1. 1 \in Nat /\ 1 <= n + 1 /\ n <= N
          BY <1>2, <1>4
        <5> QED BY <1>2, <1>4, <5>1, PositionsConcat
      <4>2. d.window = Positions(1, N) /\ ~d.omitted
        BY <1>6, <2>3, <2>8, <3>2, <3>4, <4>1
      <4> QED BY <2>3, <4>2 DEF Lost, N
    <3> QED BY <1>2, <3>3, <3>4
  <2> QED BY <2>7, <2>8
<1> QED BY <1>8, <1>9

\* HeadTail mode: only a stream over the budget is marked as cut.
LEMMA AppendHeadTailOverflowed ==
  ASSUME NEW c, IsCollector(c), Overflowed(c), NEW units \in Seq(Nat), units # <<>>,
         HeldBefore(Grown(c, units), Len(c.stream)),
         NEW d, d = AppendHeadTail(Grown(c, units),
                                   Positions(Len(c.stream) + 1, Len(Grown(c, units).stream)))
  PROVE  Overflowed(d)
<1> DEFINE g == Grown(c, units)
           n == Len(c.stream)
           N == Len(g.stream)
           new == Positions(n + 1, N)
<1>1. d = AppendHeadTail(g, new) /\ g = Grown(c, units) /\ HeldBefore(g, n)
  OBVIOUS
<1> HIDE DEF g
<1>2. /\ IsCollector(g) /\ g.window = c.window /\ g.omitted = c.omitted /\ g.budget = c.budget
      /\ g.stream = c.stream \o units /\ N = n + Len(units)
  <2>1. /\ IsCollector(g) /\ SameCollector(c, g) /\ g.stream = c.stream \o units
        /\ g.window = c.window /\ g.omitted = c.omitted
        /\ Len(g.stream) = Len(c.stream) + Len(units)
    BY <1>1, GrownType
  <2> QED BY <2>1 DEF SameCollector
<1>3. /\ c.stream \in Seq(Nat) /\ g.stream \in Seq(Nat) /\ g.budget \in Nat /\ n \in Nat
      /\ g \in Collectors /\ g.omitted \in BOOLEAN
  BY <1>2, CollectorFields DEF IsCollector
<1>4. Len(units) \in Nat /\ Len(units) > 0
  BY LenProperties, EmptySeq
<1> HIDE DEF n
<1>5. N \in Nat /\ n < N
  BY <1>2, <1>3, <1>4
<1>6. g.stream # <<>>
  <2>1. Len(<<>>) = 0
    OBVIOUS
  <2> QED BY <1>3, <1>5, <2>1
<1>7. d.stream = g.stream /\ d.budget = g.budget
      /\ (d.omitted => g.omitted \/ g.budget <= 0 \/ ~ (Bytes(g, g.window \o new) <= g.budget))
  <2> DEFINE all == g.window \o new
             fits == Bytes(g, all) <= g.budget
  <2>1. d = IF g.budget <= 0 THEN [g EXCEPT !.omitted = TRUE]
            ELSE IF ~g.omitted /\ fits THEN [g EXCEPT !.window = all, !.head = Len(all)]
            ELSE IF ~g.omitted THEN SplitWindow(g, new) ELSE MoveTail(g, new)
    BY <1>1, Zenon DEF AppendHeadTail
  <2> HIDE DEF all, fits
  <2>2. \E w, h : SplitWindow(g, new) = [g EXCEPT !.head = h, !.omitted = TRUE, !.window = w]
    BY Zenon DEF SplitWindow
  <2>3. \E w : MoveTail(g, new) = [g EXCEPT !.window = w]
    BY Zenon DEF MoveTail
  <2>4. CASE g.budget <= 0
    BY <1>3, <2>1, <2>4 DEF Collectors
  <2>5. CASE ~ (g.budget <= 0) /\ ~g.omitted /\ fits
    <3>1. d = [g EXCEPT !.window = all, !.head = Len(all)]
      BY <2>1, <2>5
    <3> QED BY <1>3, <2>5, <3>1 DEF Collectors
  <2>6. CASE ~ (g.budget <= 0) /\ ~g.omitted /\ ~fits
    <3>1. d = SplitWindow(g, new)
      BY <2>1, <2>6
    <3>2. PICK w, h : d = [g EXCEPT !.head = h, !.omitted = TRUE, !.window = w]
      BY <2>2, <3>1
    <3>3. d.stream = g.stream /\ d.budget = g.budget
      BY <1>3, <3>2 DEF Collectors
    <3> QED BY <2>6, <3>3 DEF fits, all
  <2>7. CASE ~ (g.budget <= 0) /\ g.omitted
    <3>1. d = MoveTail(g, new)
      BY <2>1, <2>7
    <3>2. PICK w : d = [g EXCEPT !.window = w]
      BY <2>3, <3>1
    <3>3. d.stream = g.stream /\ d.budget = g.budget
      BY <1>3, <3>2 DEF Collectors
    <3> QED BY <2>7, <3>3
  <2> QED BY <1>3, <2>4, <2>5, <2>6, <2>7
<1>8. SUFFICES ASSUME d.omitted
               PROVE  SumOf(g.stream) > g.budget \/ g.budget = 0
  BY <1>6, <1>7 DEF Overflowed
<1>9. SumOf(g.stream) = SumOf(c.stream) + SumOf(units) /\ SumOf(units) \in Nat
      /\ SumOf(c.stream) \in Nat /\ SumOf(g.stream) \in Nat
  BY <1>2, <1>3, SumConcat, SumType
<1>10. CASE g.omitted
  BY <1>2, <1>3, <1>9, <1>10 DEF Overflowed
<1>11. CASE g.budget <= 0
  BY <1>3, <1>11
<1>12. CASE ~g.omitted /\ ~ (Bytes(g, g.window \o new) <= g.budget)
  <2>1. g.window = Positions(1, n)
    BY <1>1, <1>12 DEF HeldBefore
  <2>2. Positions(1, n) \o Positions(n + 1, N) = Positions(1, N)
    <3>1. 1 \in Nat /\ 1 <= n + 1 /\ n <= N
      BY <1>3, <1>5
    <3> QED BY <1>3, <1>5, <3>1, PositionsConcat
  <2>3. Bytes(g, g.window \o new) = SumOf(g.stream)
    BY <1>3, <2>1, <2>2, BytesAll
  <2> QED BY <1>3, <1>9, <1>12, <2>3
<1> QED BY <1>7, <1>8, <1>10, <1>11, <1>12

\* acceptLogical keeps a plain collector plain.
LEMMA AcceptLogicalPlain ==
  ASSUME NEW c, Plain(c), NEW units \in Seq(Nat), NEW d, d = AcceptLogical(c, units)
  PROVE  Plain(d) /\ SameCollector(c, d)
<1> DEFINE g == Grown(c, units)
           n == Len(c.stream)
           new == Positions(n + 1, Len(g.stream))
<1>0. IsCollector(c) /\ c.mode \in {"prefix", "headTail"} /\ c.stream \in Seq(Nat) /\ n \in Nat
      /\ c.budget \in Nat
  BY CollectorFields DEF Plain
<1>1. /\ IsCollector(g) /\ SameCollector(c, g) /\ g.stream = c.stream \o units
      /\ g.window = c.window /\ Len(g.stream) = n + Len(units)
      /\ Bytes(g, g.window) = Bytes(c, c.window)
  <2> HIDE DEF g
  <2>1. g = Grown(c, units)
    BY DEF g
  <2> QED BY <1>0, <2>1, GrownType
<1>2. CASE units = <<>>
  <2>1. d = c
    BY <1>2 DEF AcceptLogical
  <2> QED BY <2>1 DEF SameCollector
<1>3. CASE units # <<>> /\ c.mode = "prefix"
  <2>1. d = AppendPrefix(g, new)
    BY <1>3, Zenon DEF AcceptLogical, Grown
  <2>2. new \in Seq(WindowOf(g))
    <3>1. n \in 0..Len(g.stream) /\ Len(g.stream) \in n..Len(g.stream) /\ g.stream \in Seq(Nat)
      <4> HIDE DEF g
      <4>1. Len(units) \in Nat
        OBVIOUS
      <4>2. g.stream \in Seq(Nat)
        BY <1>1 DEF IsCollector, Collectors
      <4> QED BY <1>0, <1>1, <4>1, <4>2
    <3> QED BY <3>1, RunType
  <2>3. WithinBudget(g) /\ Lost(c)
    BY <1>1, <1>3 DEF Plain, WithinBudget, SameCollector
  <2>5. Lost(d)
    BY <1>0, <1>3, <2>1, <2>3, AppendPrefixLost
  <2> HIDE DEF g, new
  <2>4. IsCollector(d) /\ SameCollector(g, d) /\ WithinBudget(d)
    BY <1>1, <2>1, <2>2, <2>3, AppendPrefixPlain
  <2> QED BY <1>1, <1>3, <2>4, <2>5 DEF Plain, SameCollector
<1>4. CASE units # <<>> /\ c.mode = "headTail"
  <2>1. d = AppendHeadTail(g, new)
    BY <1>4, Zenon DEF AcceptLogical, Grown
  <2>2. n \in 0..Len(g.stream)
    <3>1. Len(units) \in Nat
      OBVIOUS
    <3> QED BY <1>0, <1>1, <3>1
  <2>3. HeldBefore(g, n)
    BY <1>0, <1>4, GrownHeld DEF Plain
  <2>5. Overflowed(c)
    BY <1>4 DEF Plain
  <2>6. Overflowed(d)
    BY <1>0, <1>4, <2>1, <2>3, <2>5, AppendHeadTailOverflowed
  <2> HIDE DEF g, n
  <2>4. IsCollector(d) /\ SameCollector(g, d) /\ PlainWindow(d)
    BY <1>1, <2>1, <2>2, <2>3, AppendHeadTailPlain
  <2> QED BY <1>1, <1>4, <2>4, <2>6 DEF Plain, SameCollector
<1> QED BY <1>0, <1>2, <1>3, <1>4

\* Nothing but the fields of a window matters to what it keeps.
LEMMA SameWindow ==
  ASSUME NEW c, NEW d, d.stream = c.stream, d.window = c.window, d.head = c.head,
         d.omitted = c.omitted, d.budget = c.budget
  PROVE  /\ WithinBudget(c) => WithinBudget(d)
         /\ PlainWindow(c) => PlainWindow(d)
         /\ RecordWindow(c) => RecordWindow(d)
         /\ OverBudget(c) => OverBudget(d)
         /\ Overflowed(c) => Overflowed(d)
         /\ Lost(c) => Lost(d)
<1>1. /\ HeadBudget(d) = HeadBudget(c) /\ TailBudget(d) = TailBudget(c)
      /\ \A w : Bytes(d, w) = Bytes(c, w)
  BY DEF HeadBudget, TailBudget, Bytes
<1>2. WithinBudget(c) => WithinBudget(d)
  BY <1>1 DEF WithinBudget
<1>3. \A tail : KeepsEnds(c, tail) => KeepsEnds(d, tail)
  BY <1>1 DEF KeepsEnds
<1>4. KeepsAll(c) => KeepsAll(d)
  BY <1>2 DEF KeepsAll
<1>5. PlainWindow(c) => PlainWindow(d)
  BY <1>3, <1>4 DEF PlainWindow
<1>6. RecordWindow(c) => RecordWindow(d)
  BY <1>3, <1>4 DEF RecordWindow
<1>7. (OverBudget(c) => OverBudget(d)) /\ (Overflowed(c) => Overflowed(d)) /\ (Lost(c) => Lost(d))
  BY DEF OverBudget, Overflowed, Lost
<1> QED BY <1>2, <1>5, <1>6, <1>7

\* Another state, or other pending bytes.
LEMMA SetPending ==
  ASSUME NEW c, IsCollector(c), NEW p \in Seq(RawBytes), NEW d, d = [c EXCEPT !.pending = p]
  PROVE  /\ IsCollector(d) /\ d.mode = c.mode /\ d.state = c.state /\ d.budget = c.budget
         /\ d.stream = c.stream /\ d.window = c.window /\ d.head = c.head
         /\ d.omitted = c.omitted
BY DEF IsCollector, Collectors, WindowOf

LEMMA SetState ==
  ASSUME NEW c, IsCollector(c), NEW s \in {"writing", "prepared", "finished"},
         NEW d, d = [c EXCEPT !.state = s]
  PROVE  /\ IsCollector(d) /\ d.mode = c.mode /\ d.budget = c.budget
         /\ d.stream = c.stream /\ d.window = c.window /\ d.head = c.head
         /\ d.omitted = c.omitted
BY DEF IsCollector, Collectors, WindowOf

\* Write and the flush of the pending bytes.
LEMMA DecodedPlain ==
  ASSUME NEW c, Plain(c), NEW x \in Decoded, NEW p \in Seq(RawBytes),
         NEW d, d = AcceptLogical([c EXCEPT !.pending = p], x.units)
  PROVE  Plain(d) /\ d.mode = c.mode /\ d.budget = c.budget
<1> DEFINE e == [c EXCEPT !.pending = p]
           u == x.units
<1>1. u \in Seq(Nat)
  BY DEF Decoded
<1>2. d = AcceptLogical(e, u) /\ IsCollector(c) /\ e = [c EXCEPT !.pending = p]
  BY DEF Plain
<1> HIDE DEF e, u
<1>3. /\ IsCollector(e) /\ e.mode = c.mode /\ e.budget = c.budget
      /\ e.stream = c.stream /\ e.window = c.window /\ e.head = c.head
      /\ e.omitted = c.omitted
  BY <1>2, SetPending
<1>4. Plain(e)
  BY <1>3, SameWindow DEF Plain
<1>5. Plain(d) /\ SameCollector(e, d)
  BY <1>1, <1>2, <1>4, AcceptLogicalPlain
<1> QED BY <1>3, <1>5 DEF SameCollector

LEMMA ConsumeRawPlain ==
  ASSUME NEW c, Plain(c), NEW p \in Seq(RawBytes), NEW d, d = ConsumeRaw(c, p)
  PROVE  Plain(d) /\ d.mode = c.mode /\ d.budget = c.budget
<1> DEFINE in == c.pending \o p
           x == EscapeValidPrefix(in, FALSE, PlainEscape)
<1>1. in \in Seq(RawBytes)
  <2>1. c.pending \in Seq(RawBytes)
    BY CollectorFields DEF Plain
  <2> QED BY <2>1, ConcatType
<1>2. PlainEscape \in Seq(Nat) /\ FALSE \in BOOLEAN
  BY DEF PlainEscape, EscapeBytes
<1>3. x \in Decoded
  <2> HIDE DEF in
  <2> QED BY <1>1, <1>2, DecodeType, Zenon
<1>4. d = AcceptLogical([c EXCEPT !.pending = x.rest], x.units)
  BY Zenon DEF ConsumeRaw
<1>5. x.rest \in Seq(RawBytes)
  <2> HIDE DEF x
  <2> QED BY <1>3 DEF Decoded
<1> HIDE DEF x
<1> QED BY <1>3, <1>4, <1>5, DecodedPlain

LEMMA FlushPendingPlain ==
  ASSUME NEW c, Plain(c), NEW d, d = FlushPending(c)
  PROVE  Plain(d) /\ d.mode = c.mode /\ d.budget = c.budget
<1> DEFINE x == EscapeValidPrefix(c.pending, TRUE, PlainEscape)
           p == <<>>
<1>1. c.pending \in Seq(RawBytes)
  BY CollectorFields DEF Plain
<1>2. PlainEscape \in Seq(Nat) /\ TRUE \in BOOLEAN
  BY DEF PlainEscape, EscapeBytes
<1>3. x \in Decoded
  BY <1>1, <1>2, DecodeType, Zenon
<1>4. d = AcceptLogical([c EXCEPT !.pending = p], x.units)
  BY Zenon DEF FlushPending
<1>5. p \in Seq(RawBytes)
  OBVIOUS
<1> HIDE DEF x, p
<1> QED BY <1>3, <1>4, <1>5, DecodedPlain

(***************************************************************************)
(* Folds.  A fold takes the elements of 1..m out one by one; what it       *)
(* computes exists, and a property kept by every step holds of it.         *)
(***************************************************************************)
Chooses(ch, m) == \A s \in SUBSET (1..m) : s # {} => ch[s] \in s

FoldBody(base, st, ch, m, f) ==
  [s \in SUBSET (1..m) |-> IF s = {} THEN base ELSE st[<<ch[s], f[s \ {ch[s]}]>>]]

LEMMA OneLess ==
  ASSUME NEW m \in Nat, NEW s \in SUBSET (1..m), NEW x \in s
  PROVE  /\ s \ {x} \in SUBSET (1..m) /\ Cardinality(s) \in Nat
         /\ Cardinality(s \ {x}) \in Nat /\ Cardinality(s \ {x}) < Cardinality(s)
         /\ Cardinality(s) < m + 1
<1>1. IsFiniteSet(1..m) /\ Cardinality(1..m) = m
  BY FS_Interval
<1>2. IsFiniteSet(s) /\ Cardinality(s) <= Cardinality(1..m) /\ Cardinality(s) \in Nat
  BY <1>1, FS_Subset, FS_CardinalityType
<1>3. IsFiniteSet(s \ {x}) /\ Cardinality(s \ {x}) = Cardinality(s) - 1
  BY <1>2, FS_RemoveElement
<1>4. Cardinality(s \ {x}) \in Nat
  BY <1>3, FS_CardinalityType
<1> QED BY <1>1, <1>2, <1>3, <1>4

LEMMA SubsetRank ==
  ASSUME NEW m \in Nat
  PROVE  \A s \in SUBSET (1..m) : Cardinality(s) \in Nat /\ Cardinality(s) < m + 1
<1>1. IsFiniteSet(1..m) /\ Cardinality(1..m) = m
  BY FS_Interval
<1> SUFFICES ASSUME NEW s \in SUBSET (1..m)
             PROVE  Cardinality(s) \in Nat /\ Cardinality(s) < m + 1
  OBVIOUS
<1>2. Cardinality(s) <= Cardinality(1..m) /\ IsFiniteSet(s)
  BY <1>1, FS_Subset
<1>3. Cardinality(s) \in Nat
  BY <1>2, FS_CardinalityType
<1> QED BY <1>1, <1>2, <1>3

FoldFunctions(m, X) == [SUBSET (1..m) -> X]

Foldable(m, X, base, st, ch) ==
  m \in Nat /\ base \in X /\ st \in [(1..m) \X X -> X] /\ Chooses(ch, m)

LEMMA FoldExists ==
  ASSUME NEW m, NEW X, NEW base, NEW st, NEW ch, Foldable(m, X, base, st, ch)
  PROVE  \E f \in FoldFunctions(m, X) : f = FoldBody(base, st, ch, m, f)
<1> DEFINE D == SUBSET (1..m)
           F == [f \in [D -> X] |-> FoldBody(base, st, ch, m, f)]
           rank == [s \in D |-> Cardinality(s)]
<1>0. m \in Nat /\ base \in X /\ st \in [(1..m) \X X -> X] /\ Chooses(ch, m)
  BY DEF Foldable
<1>1. ASSUME NEW s \in D, s # {}
      PROVE  ch[s] \in 1..m /\ s \ {ch[s]} \in D /\ rank[s \ {ch[s]}] < rank[s]
  <2>1. ch[s] \in s
    BY <1>0, <1>1 DEF Chooses
  <2> DEFINE x == ch[s]
  <2>2. s \ {x} \in SUBSET (1..m) /\ Cardinality(s \ {x}) < Cardinality(s)
    <3> HIDE DEF x
    <3>1. x \in s
      BY <2>1 DEF x
    <3> QED BY <1>0, <3>1, OneLess
  <2> QED BY <2>1, <2>2
<1>2. F \in [[D -> X] -> [D -> X]]
  <2> SUFFICES ASSUME NEW f \in [D -> X]
               PROVE  FoldBody(base, st, ch, m, f) \in [D -> X]
    OBVIOUS
  <2>1. ASSUME NEW s \in D
        PROVE  (IF s = {} THEN base ELSE st[<<ch[s], f[s \ {ch[s]}]>>]) \in X
    <3>1. CASE s = {}
      BY <1>0, <3>1
    <3>2. CASE s # {}
      <4>1. f[s \ {ch[s]}] \in X /\ ch[s] \in 1..m
        BY <1>1, <3>2
      <4>2. <<ch[s], f[s \ {ch[s]}]>> \in (1..m) \X X
        BY <4>1
      <4> QED BY <1>0, <3>2, <4>2
    <3> QED BY <3>1, <3>2
  <2> QED BY <2>1 DEF FoldBody
<1>3. rank \in [D -> Nat] /\ \A s \in D : rank[s] < m + 1
  BY <1>0, SubsetRank
<1>4. ASSUME NEW f \in [D -> X], NEW h \in [D -> X], NEW s \in D,
             \A y \in D : rank[y] < rank[s] => f[y] = h[y]
      PROVE  F[f][s] = F[h][s]
  <2>1. s # {} => f[s \ {ch[s]}] = h[s \ {ch[s]}]
    <3> HIDE DEF rank, D
    <3> QED BY <1>1, <1>4
  <2>2. F[f][s] = (IF s = {} THEN base ELSE st[<<ch[s], f[s \ {ch[s]}]>>])
    BY DEF FoldBody
  <2>3. F[h][s] = (IF s = {} THEN base ELSE st[<<ch[s], h[s \ {ch[s]}]>>])
    BY DEF FoldBody
  <2> HIDE DEF F
  <2> QED BY <2>1, <2>2, <2>3
<1>5. Recursion(D, X, F, rank, m + 1)
  <2>1. m + 1 \in Nat /\ X # {}
    BY <1>0
  <2> HIDE DEF F, rank, D
  <2> QED BY <1>2, <1>3, <1>4, <2>1 DEF Recursion
<1>6. \E f \in [D -> X] : F[f] = f
  <2> HIDE DEF D, rank, F
  <2> QED BY <1>5, RecursionExists
<1>7. \A f \in [D -> X] : F[f] = FoldBody(base, st, ch, m, f)
  OBVIOUS
<1> HIDE DEF F
<1> QED BY <1>6, <1>7 DEF FoldFunctions

\* Induction over the sets a fold goes through.
LEMMA FoldInduction ==
  ASSUME NEW m \in Nat, NEW ch, Chooses(ch, m), NEW G, {} \in G,
         \A s \in SUBSET (1..m) : s # {} /\ s \ {ch[s]} \in G => s \in G
  PROVE  \A s \in SUBSET (1..m) : s \in G
<1> DEFINE D == SUBSET (1..m)
           rank == [s \in D |-> Cardinality(s)]
<1>1. rank \in [D -> Nat]
  BY SubsetRank
<1>2. ASSUME NEW s \in D, \A y \in D : rank[y] < rank[s] => y \in G
      PROVE  s \in G
  <2>1. CASE s = {}
    BY <2>1
  <2>2. CASE s # {}
    <3>1. ch[s] \in s
      BY <2>2 DEF Chooses
    <3> DEFINE x == ch[s]
    <3>2. s \ {x} \in SUBSET (1..m) /\ Cardinality(s \ {x}) < Cardinality(s)
      <4> HIDE DEF x
      <4>1. x \in s
        BY <3>1 DEF x
      <4> QED BY <4>1, OneLess
    <3>3. s \ {x} \in G
      BY <1>2, <3>2
    <3> QED BY <2>2, <3>3
  <2> QED BY <2>1, <2>2
<1> HIDE DEF rank, D
<1>3. \A s \in D : s \in G
  BY <1>1, <1>2, RankInduction
<1> QED BY <1>3 DEF D

(***************************************************************************)
(* partitionRecords: the tail it keeps.                                    *)
(***************************************************************************)
TailAdd(c, r, tail) ==
  IF Bytes(c, <<r>> \o tail) > TailBudget(c) THEN tail ELSE <<r>> \o tail

TailBody(c, rest, f) ==
  [s \in SUBSET (DOMAIN rest) |->
     IF s = {} THEN <<>> ELSE TailAdd(c, rest[Min(s)], f[s \ {Min(s)}])]

TailFunction(c, rest) == CHOOSE f : f = TailBody(c, rest, f)

LEMMA TailUnfolds ==
  ASSUME NEW c, NEW rest
  PROVE  RecordTail(c, rest) = TailFunction(c, rest)[DOMAIN rest]
BY Zenon DEF RecordTail, FoldRight, MapThenFoldSet, TailFunction, TailBody, TailAdd

LEMMA TailAddType ==
  ASSUME NEW c, NEW r \in Nat, NEW t \in Seq(Nat)
  PROVE  TailAdd(c, r, t) \in Seq(Nat)
<1>1. <<r>> \in Seq(Nat)
  OBVIOUS
<1>2. <<r>> \o t \in Seq(Nat)
  BY <1>1, ConcatType
<1> QED BY <1>2 DEF TailAdd

LEMMA MinChooses ==
  ASSUME NEW m \in Nat
  PROVE  Chooses([s \in SUBSET (1..m) |-> Min(s)], m)
<1> DEFINE ch == [s \in SUBSET (1..m) |-> Min(s)]
<1>1. ASSUME NEW s \in SUBSET (1..m), s # {}
      PROVE  ch[s] \in s
  <2>1. s \subseteq Nat
    OBVIOUS
  <2>2. Min(s) \in s
    BY <1>1, <2>1, MinOf
  <2> QED BY <2>2
<1> HIDE DEF ch
<1>2. Chooses(ch, m)
  BY <1>1 DEF Chooses
<1> QED BY <1>2 DEF ch

LEMMA TailExists ==
  ASSUME NEW c, NEW rest \in Seq(Nat)
  PROVE  TailFunction(c, rest) = TailBody(c, rest, TailFunction(c, rest))
<1> DEFINE m == Len(rest)
           X == Seq(Nat)
           ch == [s \in SUBSET (1..m) |-> Min(s)]
           st == [p \in (1..m) \X X |-> TailAdd(c, rest[p[1]], p[2])]
<1>0. m \in Nat
  OBVIOUS
<1>1. m \in Nat /\ DOMAIN rest = 1..m /\ <<>> \in X /\ Chooses(ch, m)
  <2>1. Chooses(ch, m)
    <3> HIDE DEF m
    <3> QED BY <1>0, MinChooses
  <2> HIDE DEF ch
  <2> QED BY <2>1
<1>2. st \in [(1..m) \X X -> X]
  <2> SUFFICES ASSUME NEW i \in 1..m, NEW t \in X
               PROVE  TailAdd(c, rest[i], t) \in X
    OBVIOUS
  <2>1. rest[i] \in Nat
    OBVIOUS
  <2> QED BY <2>1, TailAddType
<1>3. PICK f \in [SUBSET (1..m) -> X] : f = FoldBody(<<>>, st, ch, m, f)
  <2> DEFINE base == <<>>
  <2>1. base \in X
    OBVIOUS
  <2> HIDE DEF m, X, ch, st, base
  <2>2. Foldable(m, X, base, st, ch)
    BY <1>1, <1>2, <2>1 DEF Foldable
  <2>3. \E f \in FoldFunctions(m, X) : f = FoldBody(base, st, ch, m, f)
    BY <2>2, FoldExists
  <2> QED BY <2>3 DEF base, FoldFunctions
<1>4. ASSUME NEW s \in SUBSET (1..m)
      PROVE  f[s] = IF s = {} THEN <<>> ELSE TailAdd(c, rest[Min(s)], f[s \ {Min(s)}])
  <2>1. f[s] = IF s = {} THEN <<>> ELSE st[<<ch[s], f[s \ {ch[s]}]>>]
    <3> HIDE DEF ch, st, X, m
    <3> QED BY <1>3 DEF FoldBody
  <2>2. CASE s = {}
    BY <2>1, <2>2
  <2>3. CASE s # {}
    <3>1. Min(s) \in 1..m /\ ch[s] = Min(s)
      <4>1. s \subseteq Nat
        OBVIOUS
      <4>2. Min(s) \in s
        BY <2>3, <4>1, MinOf
      <4> QED BY <4>2
    <3>2. f[s \ {Min(s)}] \in X
      OBVIOUS
    <3>3. st[<<Min(s), f[s \ {Min(s)}]>>] = TailAdd(c, rest[Min(s)], f[s \ {Min(s)}])
      <4> DEFINE x == Min(s)
                 t == f[s \ {Min(s)}]
      <4>1. x \in 1..m /\ t \in X
        BY <3>1, <3>2
      <4> HIDE DEF x, t, X
      <4>2. st[<<x, t>>] = TailAdd(c, rest[x], t)
        BY <4>1
      <4> QED BY <4>2 DEF x, t
    <3> HIDE DEF st, ch
    <3> QED BY <2>1, <2>3, <3>1, <3>3
  <2> QED BY <2>2, <2>3
<1>5. f = TailBody(c, rest, f)
  <2>1. f = [s \in SUBSET (1..m) |-> f[s]]
    BY <1>3
  <2>2. TailBody(c, rest, f) = [s \in SUBSET (1..m) |-> f[s]]
    BY <1>1, <1>4 DEF TailBody
  <2> QED BY <2>1, <2>2
<1> QED BY <1>5, Zenon DEF TailFunction

\* A tail of records: in order, and within the tail's budget.
LEMMA RecordTailKept ==
  ASSUME NEW c, c.stream \in Seq(Nat), NEW a \in 0..Len(c.stream), TailBudget(c) \in Nat,
         NEW tail, tail = RecordTail(c, Positions(a + 1, Len(c.stream)))
  PROVE  /\ tail \in Seq((a + 1)..Len(c.stream))
         /\ Increasing(tail)
         /\ Bytes(c, tail) <= TailBudget(c)
<1> DEFINE n == Len(c.stream)
           rest == Positions(a + 1, n)
           m == Len(rest)
           f == TailFunction(c, rest)
           ch == [s \in SUBSET (1..m) |-> Min(s)]
           At(s) == {a + i : i \in s}
           G == {s \in SUBSET (1..m) :
                   /\ f[s] \in Seq(At(s)) /\ Increasing(f[s])
                   /\ Bytes(c, f[s]) <= TailBudget(c)}
<1>0. n \in Nat /\ a \in Nat
  OBVIOUS
<1>1. rest \in Seq(Nat) /\ m = n - a /\ m \in Nat /\ DOMAIN rest = 1..m
  <2>1. a + 1 \in Nat /\ a + 1 <= n + 1 /\ n - (a + 1) + 1 = n - a
    BY <1>0
  <2>2. rest \in Seq(Nat) /\ m = n - a
    BY <1>0, <2>1, PositionsType
  <2> HIDE DEF rest
  <2> QED BY <2>2
<1>2. ASSUME NEW i \in 1..m
      PROVE  rest[i] = a + i /\ rest[i] \in (a + 1)..n
  <2>1. i \in 1..(n - (a + 1) + 1)
    BY <1>0, <1>1
  <2>2. rest[i] = (a + 1) + i - 1
    <3>1. a + 1 \in Nat
      BY <1>0
    <3> QED BY <1>0, <2>1, <3>1, PositionsAt
  <2> HIDE DEF rest
  <2> QED BY <1>0, <1>1, <2>2
<1>3. \A s \in SUBSET (1..m) :
        f[s] = IF s = {} THEN <<>> ELSE TailAdd(c, rest[Min(s)], f[s \ {Min(s)}])
  <2>1. f = TailBody(c, rest, f)
    <3> HIDE DEF rest
    <3> QED BY <1>1, TailExists
  <2> HIDE DEF f, rest
  <2> QED BY <1>1, <2>1 DEF TailBody
<1>4. tail = f[1..m]
  <2> HIDE DEF rest
  <2> QED BY <1>1, TailUnfolds DEF rest
<1> HIDE DEF f, rest, m
<1>5. {} \in G
  <2>1. f[{}] = <<>>
    BY <1>3
  <2>2. Bytes(c, <<>>) = 0
    BY BytesEmpty
  <2>3. Increasing(<<>>)
    BY DEF Increasing
  <2>4. <<>> \in Seq(At({}))
    OBVIOUS
  <2>5. 0 <= TailBudget(c)
    OBVIOUS
  <2>6. {} \in SUBSET (1..m)
    OBVIOUS
  <2> HIDE DEF At
  <2> QED BY <2>1, <2>2, <2>3, <2>4, <2>5, <2>6
<1>6. ASSUME NEW s \in SUBSET (1..m), s # {}, s \ {Min(s)} \in G
      PROVE  s \in G
  <2> DEFINE x == Min(s)
             t == f[s \ {x}]
  <2>1. x \in s /\ \A y \in s : x <= y
    <3>1. s \subseteq Nat
      OBVIOUS
    <3> QED BY <1>6, <3>1, MinOf
  <2>2. t \in Seq(At(s \ {x})) /\ Increasing(t) /\ Bytes(c, t) <= TailBudget(c)
    BY <1>6
  <2>3. f[s] = TailAdd(c, a + x, t)
    BY <1>2, <1>3, <1>6, <2>1
  <2> HIDE DEF x, t
  <2>4. t \in Seq(At(s))
    <3> DEFINE S == At(s \ {x})
               T == At(s)
    <3>1. S \subseteq T /\ t \in Seq(S)
      BY <2>2
    <3> HIDE DEF S, T
    <3>2. t \in Seq(T)
      BY <3>1
    <3> QED BY <3>2 DEF T
  <2>5. CASE Bytes(c, <<a + x>> \o t) > TailBudget(c)
    <3>1. f[s] = t
      BY <2>3, <2>5 DEF TailAdd
    <3> QED BY <2>2, <2>4, <3>1
  <2>6. CASE ~ (Bytes(c, <<a + x>> \o t) > TailBudget(c))
    <3> DEFINE u == <<a + x>> \o t
    <3>1. f[s] = u
      BY <2>3, <2>6 DEF TailAdd
    <3>2. <<a + x>> \in Seq(At(s))
      BY <2>1
    <3>3. u \in Seq(At(s)) /\ Len(u) = 1 + Len(t)
      <4> HIDE DEF At
      <4>1. Len(<<a + x>>) = 1
        OBVIOUS
      <4> QED BY <2>4, <3>2, <4>1, ConcatType
    <3>4. \A i \in 1..Len(t) : t[i] \in At(s \ {x})
      <4> HIDE DEF At
      <4> QED BY <2>2
    <3>5. ASSUME NEW i \in 1..Len(t)
          PROVE  a + x < t[i]
      <4>1. PICK y \in s \ {x} : t[i] = a + y
        BY <3>4
      <4>2. x < y /\ x \in Nat /\ y \in Nat
        BY <1>1, <2>1, <4>1
      <4> QED BY <1>0, <4>1, <4>2
    <3>6. Increasing(u)
      <4>1. Len(t) \in Nat /\ u[1] = a + x /\ \A i \in 1..Len(t) : u[i + 1] = t[i]
        <5> HIDE DEF At
        <5>1. Len(<<a + x>>) = 1 /\ Len(t) \in Nat
          BY <2>4
        <5>2. u[1] = a + x
          BY <2>4
        <5>3. \A i \in 1..Len(t) : u[i + 1] = t[i]
          BY <2>4
        <5> QED BY <5>1, <5>2, <5>3
      <4> HIDE DEF u
      <4>2. ASSUME NEW i \in 1..(Len(u) - 1)
            PROVE  u[i] < u[i + 1]
        <5>1. i \in 1..Len(t) /\ u[i + 1] = t[i]
          BY <3>3, <4>1
        <5>2. CASE i = 1
          BY <3>5, <4>1, <5>1, <5>2
        <5>3. CASE i # 1
          <6>1. i - 1 \in 1..(Len(t) - 1) /\ (i - 1) + 1 = i /\ i - 1 \in 1..Len(t)
            BY <4>1, <5>1, <5>3
          <6>2. t[i - 1] < t[i]
            BY <2>2, <6>1 DEF Increasing
          <6>3. u[i] = t[i - 1]
            BY <4>1, <6>1
          <6> QED BY <5>1, <6>2, <6>3
        <5> QED BY <5>2, <5>3
      <4> QED BY <4>2 DEF Increasing
    <3>7. Bytes(c, u) <= TailBudget(c)
      <4>1. At(s) \subseteq WindowOf(c)
        <5>1. \A i \in s : a + i \in 1..n
          BY <1>0, <1>1
        <5> QED BY <5>1 DEF WindowOf
      <4>2. u \in Seq(WindowOf(c))
        <5> HIDE DEF At, u
        <5> QED BY <3>3, <4>1
      <4> HIDE DEF u
      <4>3. Bytes(c, u) \in Nat
        BY <4>2, BytesType
      <4> QED BY <2>6, <4>3 DEF u
    <3> HIDE DEF u, At
    <3> QED BY <3>1, <3>3, <3>6, <3>7
  <2> QED BY <2>5, <2>6
<1>7. Chooses(ch, m)
  BY <1>1, MinChooses
<1>8. 1..m \in G
  <2>1. \A s \in SUBSET (1..m) : s # {} /\ s \ {ch[s]} \in G => s \in G
    <3> HIDE DEF G
    <3> QED BY <1>6
  <2> HIDE DEF G, ch
  <2>2. \A s \in SUBSET (1..m) : s \in G
    BY <1>1, <1>5, <1>7, <2>1, FoldInduction
  <2> QED BY <2>2
<1>9. At(1..m) \subseteq (a + 1)..n
  BY <1>0, <1>1
<1>10. tail \in Seq(At(1..m)) /\ Increasing(tail) /\ Bytes(c, tail) <= TailBudget(c)
  BY <1>4, <1>8
<1>11. tail \in Seq((a + 1)..n)
  <2> HIDE DEF At
  <2> QED BY <1>9, <1>10
<1> QED BY <1>10, <1>11

(***************************************************************************)
(* Records.                                                                *)
(***************************************************************************)

LEMMA SeqWiden ==
  ASSUME NEW S, NEW T, S \subseteq T, NEW s \in Seq(S)
  PROVE  s \in Seq(T)
OBVIOUS

Joined(s, t, w) ==
  /\ Len(w) = Len(s) + Len(t) /\ Len(s) \in Nat /\ Len(t) \in Nat
  /\ \A i \in 1..Len(s) : w[i] = s[i]
  /\ \A i \in 1..Len(t) : w[Len(s) + i] = t[i]

LEMMA JoinedConcat ==
  ASSUME NEW S, NEW s \in Seq(S), NEW t \in Seq(S), NEW w, w = s \o t
  PROVE  Joined(s, t, w)
<1>1. Len(w) = Len(s) + Len(t) /\ Len(s) \in Nat /\ Len(t) \in Nat
  OBVIOUS
<1>2. \A i \in 1..Len(s) : w[i] = s[i]
  OBVIOUS
<1>3. \A i \in 1..Len(t) : w[Len(s) + i] = t[i]
  OBVIOUS
<1> QED BY <1>1, <1>2, <1>3 DEF Joined

\* partitionRecords: the longest head of whole records, and the tail after it.
LEMMA PartitionKeepsEnds ==
  ASSUME NEW g, IsCollector(g), g.mode = "headTail", g.window = Positions(1, Len(g.stream)),
         SumOf(g.stream) > g.budget, NEW d, d = PartitionRecords(g)
  PROVE  RecordCollector(d) /\ SameCollector(g, d)
<1> DEFINE n == Len(g.stream)
           HB == HeadBudget(g)
<1>0. g.stream \in Seq(Nat) /\ n \in Nat /\ HB \in Nat /\ TailBudget(g) \in Nat
  BY CollectorFields, BudgetHalves
<1>1. PICK k \in 0..n : PrefixView(g, Positions(0 + 1, n), HB) = Positions(0 + 1, k)
                        /\ Bytes(g, Positions(0 + 1, k)) <= HB
  <2>1. 0 \in 0..n /\ n \in 0..n
    BY <1>0
  <2> HIDE DEF HB
  <2> QED BY <1>0, <2>1, RunPrefix
<1> DEFINE head == Positions(1, k)
           rest == SubSeq(g.window, Len(head) + 1, Len(g.window))
           tail == RecordTail(g, rest)
<1>2. PrefixView(g, g.window, HB) = head /\ Bytes(g, head) <= HB
  BY <1>1
<1>3. /\ head \in Seq(WindowOf(g)) /\ Len(head) = k /\ k \in Nat
      /\ Len(g.window) = n
  <2>1. 0 \in 0..n /\ k \in 0..n /\ n \in 0..n /\ 0 + 1 = 1 /\ k - 0 = k /\ n - 0 = n
    BY <1>0
  <2>2. Positions(0 + 1, k) \in Seq(WindowOf(g)) /\ Len(Positions(0 + 1, k)) = k - 0
        /\ Len(Positions(0 + 1, n)) = n - 0
    BY <1>0, <2>1, RunType
  <2> QED BY <2>1, <2>2
<1>4. rest = Positions(k + 1, n)
  <2>1. 1 \in Nat /\ n \in Nat /\ 1 <= n + 1 /\ k \in 0..(n - 1 + 1) /\ n - 1 + 1 = n /\ 1 + k = k + 1
    BY <1>0
  <2>2. SubSeq(Positions(1, n), k + 1, n - 1 + 1) = Positions(1 + k, n)
    BY <2>1, PositionsTail
  <2> QED BY <1>3, <2>1, <2>2
<1>5. tail \in Seq((k + 1)..n) /\ Increasing(tail) /\ Bytes(g, tail) <= TailBudget(g)
  BY <1>0, <1>4, RecordTailKept
<1>6. tail \in Seq(WindowOf(g))
  <2>1. (k + 1)..n \subseteq WindowOf(g)
    BY <1>0 DEF WindowOf
  <2> HIDE DEF tail
  <2> QED BY <1>5, <2>1
<1> DEFINE w == head \o tail
<1>7. w \in Seq(WindowOf(g))
  <2> HIDE DEF head, tail
  <2> QED BY <1>3, <1>6, ConcatType
<1>8. d = [g EXCEPT !.window = w, !.head = Len(head), !.omitted = TRUE]
  BY <1>2, Zenon DEF PartitionRecords
<1>9. d = Omitting(g, w, k)
  BY <1>3, <1>8 DEF Omitting
<1>10. /\ IsCollector(d) /\ SameCollector(g, d) /\ d.stream = g.stream
       /\ d.window = w /\ d.head = k /\ d.omitted
  <2> HIDE DEF w
  <2> QED BY <1>3, <1>7, <1>9, OmittingType
<1>11. KeepsEnds(d, tail)
  <2>1. HeadBudget(d) = HB /\ TailBudget(d) = TailBudget(g) /\ \A v : Bytes(d, v) = Bytes(g, v)
    BY <1>10 DEF HeadBudget, TailBudget, Bytes, SameCollector
  <2> HIDE DEF tail, HB
  <2> QED BY <1>0, <1>2, <1>5, <1>10, <2>1 DEF KeepsEnds, w
<1>12. RecordWindow(d)
  <2> HIDE DEF tail
  <2>1. tail \in Seq((d.head + 1)..Len(d.stream))
    BY <1>5, <1>10
  <2> QED BY <1>5, <1>10, <1>11, <2>1 DEF RecordWindow
<1> QED BY <1>10, <1>12 DEF RecordCollector, SameCollector, OverBudget

\* A suffix of an increasing sequence is one.
LEMMA SuffixIncreasing ==
  ASSUME NEW S, S \subseteq Nat, NEW s \in Seq(S), Increasing(s), NEW k \in 0..Len(s),
         NEW t, t = SubSeq(s, k + 1, Len(s))
  PROVE  t \in Seq(S) /\ Increasing(t)
<1>1. Len(s) \in Nat /\ k \in Nat
  OBVIOUS
<1>2. t \in Seq(S) /\ Len(t) = Len(s) - k /\ \A i \in 1..(Len(s) - k) : t[i] = s[k + i]
  BY <1>1
<1>3. ASSUME NEW i \in 1..(Len(t) - 1)
      PROVE  t[i] < t[i + 1]
  <2>1. k + i \in 1..(Len(s) - 1) /\ (k + i) + 1 = k + (i + 1)
        /\ i \in 1..(Len(s) - k) /\ i + 1 \in 1..(Len(s) - k)
    BY <1>1, <1>2
  <2>2. s[k + i] < s[(k + i) + 1]
    BY <2>1 DEF Increasing
  <2> QED BY <1>2, <2>1, <2>2
<1> QED BY <1>2, <1>3 DEF Increasing

\* A record at the end of what is held is the last.
LEMMA AppendIncreasing ==
  ASSUME NEW a \in Nat, NEW n \in Nat, a <= n, NEW s \in Seq((a + 1)..n), Increasing(s),
         NEW t, t = Append(s, n + 1)
  PROVE  t \in Seq((a + 1)..(n + 1)) /\ Increasing(t) /\ Len(t) = Len(s) + 1
<1>1. (a + 1)..n \subseteq (a + 1)..(n + 1) /\ n + 1 \in (a + 1)..(n + 1)
  OBVIOUS
<1>2. t \in Seq((a + 1)..(n + 1)) /\ Len(t) = Len(s) + 1
      /\ t[Len(s) + 1] = n + 1 /\ \A i \in 1..Len(s) : t[i] = s[i]
  <2> DEFINE T == (a + 1)..(n + 1)
             x == n + 1
  <2>1. s \in Seq(T) /\ x \in T
    BY <1>1
  <2> HIDE DEF T, x
  <2>2. t = Append(s, x)
    BY DEF x
  <2>3. t \in Seq(T) /\ Len(t) = Len(s) + 1
        /\ t[Len(s) + 1] = x /\ \A i \in 1..Len(s) : t[i] = s[i]
    BY <2>1, <2>2
  <2> QED BY <2>3 DEF T, x
<1>3. ASSUME NEW i \in 1..(Len(t) - 1)
      PROVE  t[i] < t[i + 1]
  <2>1. Len(s) \in Nat /\ i \in 1..Len(s) /\ s[i] \in (a + 1)..n
    BY <1>2
  <2>2. CASE i = Len(s)
    BY <1>2, <2>1, <2>2
  <2>3. CASE i # Len(s)
    <3>1. i \in 1..(Len(s) - 1) /\ i + 1 \in 1..Len(s)
      BY <2>1, <2>3
    <3>2. s[i] < s[i + 1]
      BY <3>1 DEF Increasing
    <3> QED BY <1>2, <2>1, <3>1, <3>2
  <2> QED BY <2>2, <2>3
<1> QED BY <1>2, <1>3 DEF Increasing

\* trimRecordTail: the head stays, and the tail ends with the new record.
LEMMA TrimKeepsEnds ==
  ASSUME NEW g, IsCollector(g), g.mode = "headTail", g.omitted, g.head <= Len(g.stream),
         NEW old \in Seq((g.head + 1)..Len(g.stream)), Increasing(old),
         g.window = Positions(1, g.head) \o old,
         Bytes(g, Positions(1, g.head)) <= HeadBudget(g), SumOf(g.stream) > g.budget,
         NEW d, d = TrimRecordTail(g)
  PROVE  RecordCollector(d) /\ SameCollector(g, d)
<1> DEFINE n == Len(g.stream)
           h == g.head
           head == Positions(0 + 1, h)
           T == TailBudget(g)
           R == (h + 1)..n
<1>1. g.stream \in Seq(Nat) /\ n \in Nat /\ h \in Nat /\ g.budget \in Nat /\ 0 + 1 = 1
      /\ 0 \in 0..n /\ h \in 0..n
  <2>1. g.stream \in Seq(Nat) /\ n \in Nat /\ h \in Nat /\ g.budget \in Nat
    BY CollectorFields
  <2> QED BY <2>1
<1>2. T \in Nat
  BY <1>1, BudgetHalves
<1>3. head \in Seq(WindowOf(g)) /\ Len(head) = h
  <2>1. h - 0 = h
    BY <1>1
  <2> QED BY <1>1, <2>1, RunType
<1>4. R \subseteq WindowOf(g) /\ R \subseteq Nat
  BY <1>1 DEF WindowOf
<1>5. old \in Seq(R) /\ old \in Seq(WindowOf(g))
  <2>1. old \in Seq(R)
    OBVIOUS
  <2> HIDE DEF R
  <2> QED BY <1>4, <2>1, SeqWiden
<1>6. SubSeq(g.window, 1, h) = head /\ SubSeq(g.window, h + 1, Len(g.window)) = old
  <2>0. g.window = head \o old
    BY <1>1
  <2> HIDE DEF head, h
  <2>1. SubSeq(head \o old, 1, Len(head)) = head
        /\ SubSeq(head \o old, Len(head) + 1, Len(head \o old)) = old
    BY <1>3, <1>5, CutConcat
  <2>2. Len(head) = h
    BY <1>3
  <2> QED BY <2>0, <2>1, <2>2, Zenon
<1>7. PICK k \in 0..Len(old) : SuffixView(g, old, T) = SubSeq(old, k + 1, Len(old))
                               /\ Bytes(g, SubSeq(old, k + 1, Len(old))) <= T
  <2> HIDE DEF T, R
  <2> QED BY <1>2, <1>5, SuffixViewFits
<1> DEFINE tail == SubSeq(old, k + 1, Len(old))
           w == head \o tail
<1>8. tail \in Seq(R) /\ Increasing(tail) /\ tail \in Seq(WindowOf(g))
  <2> HIDE DEF R
  <2>1. tail \in Seq(R) /\ Increasing(tail)
    BY <1>4, <1>5, SuffixIncreasing
  <2> HIDE DEF tail
  <2> QED BY <1>4, <2>1, SeqWiden
<1>9. w \in Seq(WindowOf(g))
  <2> HIDE DEF head, tail
  <2> QED BY <1>3, <1>8, ConcatType
<1>10. d = Omitting(g, w, h)
  <2>1. d = [g EXCEPT !.window = SubSeq(g.window, 1, g.head)
                        \o SuffixView(g, SubSeq(g.window, g.head + 1, Len(g.window)), T)]
    BY Zenon DEF TrimRecordTail
  <2>2. d = [g EXCEPT !.window = head \o tail]
    BY <1>6, <1>7, <2>1, Zenon
  <2> HIDE DEF head, tail
  <2>3. g \in Collectors /\ g.omitted = TRUE
    BY DEF IsCollector, Collectors
  <2> QED BY <2>2, <2>3 DEF Omitting, Collectors
<1>11. /\ IsCollector(d) /\ SameCollector(g, d) /\ d.stream = g.stream
       /\ d.window = w /\ d.head = h /\ d.omitted
  <2> HIDE DEF w, h
  <2> QED BY <1>1, <1>9, <1>10, OmittingType
<1>12. KeepsEnds(d, tail)
  <2>1. HeadBudget(d) = HeadBudget(g) /\ TailBudget(d) = T /\ \A v : Bytes(d, v) = Bytes(g, v)
    BY <1>11 DEF HeadBudget, TailBudget, Bytes, SameCollector
  <2>2. Bytes(d, tail) <= TailBudget(d)
    BY <1>7, <2>1
  <2>3. d.window = Positions(1, d.head) \o tail /\ d.head <= Len(d.stream)
        /\ Bytes(d, Positions(1, d.head)) <= HeadBudget(d)
    BY <1>1, <1>11, <2>1
  <2> HIDE DEF tail
  <2> QED BY <2>2, <2>3 DEF KeepsEnds
<1>13. RecordWindow(d)
  <2> HIDE DEF tail
  <2>1. tail \in Seq((d.head + 1)..Len(d.stream))
    BY <1>8, <1>11
  <2> QED BY <1>8, <1>11, <1>12, <2>1 DEF RecordWindow
<1> QED BY <1>11, <1>13 DEF RecordCollector, SameCollector, OverBudget

\* acceptRecord: one more record, of any size.
LEMMA AcceptRecordKept ==
  ASSUME NEW c, RecordCollector(c), NEW size \in Nat, NEW d, d = AcceptRecord(c, size)
  PROVE  RecordCollector(d) /\ SameCollector(c, d)
<1> DEFINE n == Len(c.stream)
           e == Grown(c, <<size>>)
           w == Append(c.window, n + 1)
           g == Keeping(e, w, c.head)
<1>0. IsCollector(c) /\ c.mode = "headTail" /\ c.stream \in Seq(Nat) /\ n \in Nat
      /\ c.head \in Nat /\ c.window \in Seq(WindowOf(c)) /\ c.budget \in Nat
      /\ c \in Collectors /\ c.omitted \in BOOLEAN
  BY CollectorFields DEF RecordCollector, IsCollector
<1>1. /\ IsCollector(e) /\ SameCollector(c, e) /\ e.stream = c.stream \o <<size>>
      /\ e.head = c.head /\ e.omitted = c.omitted /\ Len(e.stream) = n + 1
  <2> DEFINE u == <<size>>
  <2>1. u \in Seq(Nat) /\ Len(u) = 1
    OBVIOUS
  <2> HIDE DEF u
  <2> DEFINE e2 == Grown(c, u)
  <2>2. e2 = Grown(c, u)
    OBVIOUS
  <2> HIDE DEF e2
  <2>3. /\ IsCollector(e2) /\ SameCollector(c, e2) /\ e2.stream = c.stream \o u
        /\ e2.head = c.head /\ e2.omitted = c.omitted /\ Len(e2.stream) = Len(c.stream) + Len(u)
    BY ONLY <1>0, <2>1, <2>2, GrownType
  <2> QED BY <2>1, <2>3 DEF e2, u
<1>2. w \in Seq(WindowOf(e)) /\ Len(w) = Len(c.window) + 1 /\ Len(c.window) \in Nat
  <2>1. c.window \in Seq(WindowOf(e)) /\ n + 1 \in WindowOf(e)
    <3>1. WindowOf(c) \subseteq WindowOf(e) /\ n + 1 \in WindowOf(e)
      <4> HIDE DEF e
      <4> QED BY <1>0, <1>1 DEF WindowOf
    <3> HIDE DEF e
    <3> QED BY <1>0, <3>1
  <2> HIDE DEF e
  <2> QED BY <2>1
<1>3. /\ IsCollector(g) /\ SameCollector(c, g) /\ g.stream = c.stream \o <<size>>
      /\ g.window = w /\ g.head = c.head /\ g.omitted = c.omitted /\ Len(g.stream) = n + 1
  <2> HIDE DEF e, w
  <2>1. g = Keeping(e, w, c.head)
    OBVIOUS
  <2> HIDE DEF g
  <2>2. IsCollector(g) /\ SameCollector(e, g) /\ g.stream = e.stream
        /\ g.window = w /\ g.head = c.head /\ g.omitted = e.omitted
    <3> DEFINE h == c.head
    <3>1. h \in Nat /\ g = Keeping(e, w, h) /\ IsCollector(e) /\ w \in Seq(WindowOf(e))
      BY <1>0, <1>1, <1>2, <2>1
    <3> HIDE DEF h
    <3>2. IsCollector(g) /\ SameCollector(e, g) /\ g.stream = e.stream
          /\ g.window = w /\ g.head = h /\ g.omitted = e.omitted
      BY ONLY <3>1, KeepingType
    <3> QED BY <3>2 DEF h
  <2> QED BY <1>1, <2>2 DEF SameCollector
<1>4. [c EXCEPT !.stream = Append(@, size), !.window = Append(@, Len(c.stream) + 1)] = g
  <2> HIDE DEF n, w
  <2>1. Append(c.stream, size) = c.stream \o <<size>>
    BY <1>0
  <2>2. w = Append(c.window, Len(c.stream) + 1)
    BY DEF w, n
  <2> QED BY <1>0, <2>1, <2>2 DEF Keeping, Grown, Collectors
<1> DEFINE x == [c EXCEPT !.stream = Append(@, size), !.window = Append(@, Len(c.stream) + 1)]
<1>5. d = IF c.omitted THEN TrimRecordTail(g)
          ELSE IF SumOf(g.stream) <= c.budget THEN [g EXCEPT !.head = Len(g.window)]
          ELSE PartitionRecords(g)
  <2>1. d = IF c.omitted THEN TrimRecordTail(x)
            ELSE IF SumOf(x.stream) <= c.budget THEN [x EXCEPT !.head = Len(x.window)]
            ELSE PartitionRecords(x)
    BY Zenon DEF AcceptRecord
  <2>2. x = g
    BY <1>4
  <2> HIDE DEF x, g
  <2> QED BY <2>1, <2>2
<1> HIDE DEF x, g
<1>6. CASE c.omitted
  <2>1. PICK old \in Seq((c.head + 1)..n) : KeepsEnds(c, old) /\ Increasing(old)
    BY <1>6 DEF RecordCollector, RecordWindow
  <2>2. c.head <= n /\ c.window = Positions(1, c.head) \o old
        /\ Bytes(c, Positions(1, c.head)) <= HeadBudget(c)
    BY <2>1 DEF KeepsEnds
  <2> DEFINE new == Append(old, n + 1)
             head == Positions(1, c.head)
  <2>3. new \in Seq((c.head + 1)..(n + 1)) /\ Increasing(new)
    <3> DEFINE h == c.head
    <3>1. h \in Nat /\ n \in Nat /\ h <= n /\ old \in Seq((h + 1)..n) /\ Increasing(old)
      BY <1>0, <2>1, <2>2
    <3>2. new = Append(old, n + 1)
      OBVIOUS
    <3> HIDE DEF h, n, new
    <3>3. new \in Seq((h + 1)..(n + 1)) /\ Increasing(new)
      BY ONLY <3>1, <3>2, AppendIncreasing
    <3> QED BY <3>3 DEF h
  <2>4. head \in Seq(WindowOf(c)) /\ head \in Seq(Nat)
    <3>1. 0 \in 0..n /\ c.head \in 0..n /\ 0 + 1 = 1
      BY <1>0, <2>2
    <3>2. Positions(0 + 1, c.head) \in Seq(WindowOf(c))
      BY <1>0, <3>1, RunType
    <3>3. WindowOf(c) \subseteq Nat
      BY DEF WindowOf
    <3> QED BY <3>1, <3>2, <3>3
  <2>5. w = head \o new
    <3>1. old \in Seq(Nat) /\ n + 1 \in Nat
      <4>1. (c.head + 1)..n \subseteq Nat
        BY <1>0
      <4> DEFINE S == (c.head + 1)..n
      <4>2. old \in Seq(S) /\ S \subseteq Nat
        BY <4>1
      <4> HIDE DEF S
      <4>3. old \in Seq(Nat)
        BY <4>2, SeqWiden
      <4> QED BY <1>0, <4>3
    <3> HIDE DEF head, n
    <3> DEFINE y == n + 1
    <3>2. y \in Nat
      BY <3>1
    <3> HIDE DEF y
    <3>3. Append(head \o old, y) = head \o Append(old, y)
      <4> DEFINE a == head \o old
                 b == Append(old, y)
                 l == Append(a, y)
                 r == head \o b
      <4>1. a \in Seq(Nat) /\ Len(a) = Len(head) + Len(old) /\ Len(head) \in Nat /\ Len(old) \in Nat
            /\ (\A i \in 1..Len(head) : a[i] = head[i])
            /\ (\A i \in 1..Len(old) : a[Len(head) + i] = old[i])
        BY <2>4, <3>1
      <4>2. b \in Seq(Nat) /\ Len(b) = Len(old) + 1 /\ b[Len(old) + 1] = y
            /\ (\A i \in 1..Len(old) : b[i] = old[i])
        BY <3>1, <3>2
      <4> HIDE DEF a, b
      <4>3. l \in Seq(Nat) /\ Len(l) = Len(a) + 1 /\ l[Len(a) + 1] = y
            /\ (\A i \in 1..Len(a) : l[i] = a[i])
        BY <4>1, <3>2
      <4>4. r \in Seq(Nat) /\ Len(r) = Len(head) + Len(b)
            /\ (\A i \in 1..Len(head) : r[i] = head[i])
            /\ (\A i \in 1..Len(b) : r[Len(head) + i] = b[i])
        <5>1. b \in Seq(Nat) /\ head \in Seq(Nat)
          BY <4>2, <2>4
        <5> QED BY ONLY <5>1
      <4> HIDE DEF l, r
      <4>5. Len(l) = Len(r)
        BY <4>1, <4>2, <4>3, <4>4
      <4>6. ASSUME NEW i \in 1..Len(l)
            PROVE  l[i] = r[i]
        <5>1. CASE i \in 1..Len(head)
          <6>1. i \in 1..Len(a)
            BY <4>1, <5>1
          <6> QED BY <4>1, <4>3, <4>4, <5>1, <6>1
        <5>2. CASE i \notin 1..Len(head)
          <6> DEFINE k == i - Len(head)
          <6>1. k \in 1..(Len(old) + 1) /\ i = Len(head) + k
            BY <4>1, <4>3, <5>2
          <6> HIDE DEF k
          <6>2. r[i] = b[k]
            BY <4>2, <4>4, <6>1
          <6>3. CASE k \in 1..Len(old)
            <7>1. i \in 1..Len(a) /\ a[i] = old[k]
              BY <4>1, <6>1, <6>3
            <7> QED BY <4>2, <4>3, <6>2, <6>3, <7>1
          <6>4. CASE k = Len(old) + 1
            <7>1. i = Len(a) + 1
              BY <4>1, <6>1, <6>4
            <7> QED BY <4>2, <4>3, <6>2, <6>4, <7>1
          <6> QED BY <4>1, <6>1, <6>3, <6>4
        <5> QED BY <5>1, <5>2
      <4>7. l = r
        BY <4>3, <4>4, <4>5, <4>6, SeqExtensional
      <4> QED BY <4>7 DEF l, r, a, b
    <3> QED BY <2>2, <3>3 DEF y, head, w
  <2>6. Bytes(g, head) <= HeadBudget(g)
    <3>1. Bytes(g, head) = Bytes(c, head)
      <4> DEFINE u == <<size>>
      <4>1. u \in Seq(Nat) /\ g.stream = c.stream \o u
        BY <1>3
      <4> HIDE DEF u, head
      <4>2. c.stream \in Seq(Nat) /\ head \in Seq(WindowOf(c))
        BY <1>0, <2>4
      <4>3. head \in Seq(WindowOf(g)) /\ Bytes(g, head) = Bytes(c, head)
        BY ONLY <4>1, <4>2, BytesGrown
      <4> QED BY <4>3
    <3>2. HeadBudget(g) = HeadBudget(c)
      BY <1>3 DEF HeadBudget, SameCollector
    <3> QED BY <2>2, <3>1, <3>2
  <2>7. /\ new \in Seq((g.head + 1)..Len(g.stream)) /\ g.window = Positions(1, g.head) \o new
        /\ g.head <= Len(g.stream) /\ g.mode = "headTail" /\ g.omitted
        /\ Bytes(g, Positions(1, g.head)) <= HeadBudget(g)
    <3> HIDE DEF new, w
    <3>1. g.head = c.head /\ Len(g.stream) = n + 1 /\ g.window = w /\ g.omitted /\ g.mode = "headTail"
      BY <1>0, <1>3, <1>6 DEF SameCollector
    <3>2. c.head <= n + 1
      BY <1>0, <2>2
    <3> QED BY <2>3, <2>5, <2>6, <3>1, <3>2
  <2>8. d = TrimRecordTail(g)
    BY <1>5, <1>6
  <2> HIDE DEF new
  <2>10. SumOf(g.stream) > g.budget
    <3> DEFINE u == <<size>>
    <3>1. u \in Seq(Nat) /\ g.stream = c.stream \o u /\ g.budget = c.budget
      BY <1>3 DEF SameCollector
    <3>2. SumOf(c.stream) > c.budget
      BY <1>6 DEF RecordCollector, OverBudget
    <3> HIDE DEF u
    <3>3. SumOf(g.stream) = SumOf(c.stream) + SumOf(u)
      BY <1>0, <3>1, SumConcat
    <3>4. SumOf(u) \in Nat /\ SumOf(c.stream) \in Nat
      BY <1>0, <3>1, SumType
    <3> QED BY <1>0, <3>1, <3>2, <3>3, <3>4
  <2>9. RecordCollector(d) /\ SameCollector(g, d)
    BY <1>3, <2>3, <2>7, <2>8, <2>10, TrimKeepsEnds
  <2> QED BY <1>3, <2>9 DEF SameCollector
<1>7. ASSUME ~c.omitted
      PROVE  g.window = Positions(1, n + 1)
  <2>1. c.window = Positions(1, n)
    BY <1>7 DEF RecordCollector, RecordWindow, KeepsAll
  <2> DEFINE v == Positions(1, n)
             z == Positions(1, n + 1)
  <2>2. v \in Seq(Nat) /\ Len(v) = n /\ z \in Seq(Nat) /\ Len(z) = n + 1
    <3>1. 1 \in Nat /\ n + 1 \in Nat /\ 1 <= n + 1 /\ 1 <= (n + 1) + 1
          /\ n - 1 + 1 = n /\ (n + 1) - 1 + 1 = n + 1
      BY <1>0
    <3> QED BY <1>0, <3>1, PositionsType
  <2>3. \A i \in 1..n : v[i] = i
    BY <1>0 DEF Positions
  <2>4. \A i \in 1..(n + 1) : z[i] = i
    BY <1>0 DEF Positions
  <2> HIDE DEF v, z
  <2> DEFINE u == Append(v, n + 1)
  <2>5. u \in Seq(Nat) /\ Len(u) = n + 1 /\ u[n + 1] = n + 1 /\ \A i \in 1..n : u[i] = v[i]
    <3> DEFINE y == n + 1
    <3>1. y \in Nat /\ v \in Seq(Nat) /\ Len(v) = n /\ u = Append(v, y)
      BY <1>0, <2>2
    <3> HIDE DEF u
    <3>2. u \in Seq(Nat) /\ Len(u) = Len(v) + 1 /\ u[Len(v) + 1] = y /\ \A i \in 1..Len(v) : u[i] = v[i]
      <4> HIDE DEF y
      <4> QED BY ONLY <3>1
    <3> QED BY <3>1, <3>2
  <2> HIDE DEF u
  <2>6. ASSUME NEW i \in 1..Len(u)
        PROVE  u[i] = z[i]
    <3>1. i \in 1..n \/ i = n + 1
      BY <1>0, <2>5
    <3> HIDE DEF n
    <3> QED BY <2>3, <2>4, <2>5, <3>1
  <2>7. u = z
    BY <2>2, <2>5, <2>6, SeqExtensional
  <2> QED BY <1>3, <2>1, <2>7 DEF u, v, z, w
<1>8. CASE ~c.omitted /\ SumOf(g.stream) <= c.budget
  <2>1. d = [g EXCEPT !.head = Len(g.window)]
    BY <1>5, <1>8
  <2>2. g.window \in Seq(WindowOf(g)) /\ Len(g.window) \in Nat /\ g \in Collectors
    BY <1>3, CollectorFields DEF IsCollector
  <2>3. d = Keeping(g, g.window, Len(g.window))
    BY <2>1, <2>2 DEF Keeping, Collectors
  <2>4. /\ IsCollector(d) /\ SameCollector(g, d) /\ d.stream = g.stream
        /\ d.window = g.window /\ d.head = Len(g.window) /\ d.omitted = g.omitted
    <3> DEFINE v == g.window
               h == Len(v)
    <3>1. IsCollector(g) /\ v \in Seq(WindowOf(g)) /\ h \in Nat /\ d = Keeping(g, v, h)
      BY <1>3, <2>2, <2>3
    <3> HIDE DEF v, h
    <3>2. /\ IsCollector(d) /\ SameCollector(g, d) /\ d.stream = g.stream
          /\ d.window = v /\ d.head = h /\ d.omitted = g.omitted
      BY ONLY <3>1, KeepingType
    <3> QED BY <3>2 DEF v, h
  <2>5. Len(g.window) = n + 1
    <3>1. 1 \in Nat /\ n + 1 \in Nat /\ 1 <= (n + 1) + 1 /\ (n + 1) - 1 + 1 = n + 1
      BY <1>0
    <3>2. Len(Positions(1, n + 1)) = n + 1
      BY <3>1, PositionsType
    <3> QED BY <1>7, <1>8, <3>2
  <2>6. WithinBudget(d)
    <3>1. g.stream \in Seq(Nat)
      BY <1>3, CollectorFields
    <3>2. Bytes(g, Positions(1, Len(g.stream))) = SumOf(g.stream)
      BY <3>1, BytesAll
    <3>3. Bytes(d, d.window) = Bytes(g, g.window)
      BY <2>4 DEF Bytes
    <3> QED BY <1>3, <1>7, <1>8, <2>4, <3>2, <3>3 DEF WithinBudget, SameCollector
  <2>7. KeepsAll(d)
    BY <1>3, <1>7, <1>8, <2>4, <2>5, <2>6 DEF KeepsAll
  <2>8. ~d.omitted
    BY <1>3, <1>8, <2>4
  <2> QED BY <1>0, <1>3, <2>4, <2>7, <2>8 DEF RecordCollector, RecordWindow, SameCollector, OverBudget
<1>9. CASE ~c.omitted /\ ~ (SumOf(g.stream) <= c.budget)
  <2>1. d = PartitionRecords(g)
    BY <1>5, <1>9
  <2>2. g.window = Positions(1, Len(g.stream)) /\ g.mode = "headTail"
    BY <1>0, <1>3, <1>7, <1>9 DEF SameCollector
  <2>4. SumOf(g.stream) > g.budget
    <3>1. g.stream \in Seq(Nat)
      BY <1>3, CollectorFields
    <3>2. SumOf(g.stream) \in Nat
      BY <3>1, SumType
    <3> QED BY <1>0, <1>3, <1>9, <3>2 DEF SameCollector
  <2>3. RecordCollector(d) /\ SameCollector(g, d)
    BY <1>3, <2>1, <2>2, <2>4, PartitionKeepsEnds
  <2> QED BY <1>3, <2>3 DEF SameCollector
<1> QED BY <1>6, <1>8, <1>9

(***************************************************************************)
(* Groups of sources.                                                      *)
(***************************************************************************)
Groups(b) ==
  {g \in [col : Collectors, src : [Sources -> SourceStates]] :
     RecordCollector(g.col) /\ g.col.budget = b}

LEMMA GroupFields ==
  ASSUME NEW b, NEW g \in Groups(b), NEW name \in Sources
  PROVE  /\ RecordCollector(g.col) /\ g.col.budget = b
         /\ g.src \in [Sources -> SourceStates]
         /\ g.src[name].pending \in Seq(RawBytes) /\ g.src[name].record \in Nat
BY DEF Groups, SourceStates

LEMMA GroupSource ==
  ASSUME NEW b, NEW g \in Groups(b), NEW name \in Sources, NEW r \in Nat,
         NEW d, d = [g EXCEPT !.src[name].record = r]
  PROVE  d \in Groups(b)
BY DEF Groups, SourceStates

LEMMA GroupPending ==
  ASSUME NEW b, NEW g \in Groups(b), NEW name \in Sources, NEW p \in Seq(RawBytes),
         NEW d, d = [g EXCEPT !.src[name].pending = p]
  PROVE  d \in Groups(b)
BY DEF Groups, SourceStates

LEMMA GroupCollector ==
  ASSUME NEW b, NEW g \in Groups(b), NEW c, RecordCollector(c), c.budget = b
  PROVE  [g EXCEPT !.col = c] \in Groups(b)
<1>1. c \in Collectors
  BY DEF RecordCollector, IsCollector
<1> QED BY <1>1 DEF Groups

LEMMA FlushRecordKept ==
  ASSUME NEW b, NEW g \in Groups(b), NEW name \in Sources, NEW d, d = FlushRecord(g, name)
  PROVE  d \in Groups(b)
<1> DEFINE size == RecordHeader + g.src[name].record
           c == AcceptRecord(g.col, size)
           e == [g EXCEPT !.col = c]
<1>1. RecordCollector(g.col) /\ g.col.budget = b /\ g.src[name].record \in Nat
  BY GroupFields
<1>2. size \in Nat
  BY <1>1, CollectorConstants
<1>3. RecordCollector(c) /\ c.budget = b
  <2> DEFINE col0 == g.col
  <2>1. RecordCollector(col0) /\ size \in Nat /\ c = AcceptRecord(col0, size) /\ col0.budget = b
    BY <1>1, <1>2
  <2> HIDE DEF col0, size, c
  <2>2. RecordCollector(c) /\ SameCollector(col0, c)
    BY ONLY <2>1, AcceptRecordKept
  <2> QED BY <2>1, <2>2 DEF SameCollector
<1>4. e \in Groups(b)
  <2> HIDE DEF c
  <2> QED BY <1>3, GroupCollector
<1>5. d = [g EXCEPT !.col = c, !.src[name].record = 0]
  BY Zenon DEF FlushRecord
<1>6. d = [e EXCEPT !.src[name].record = 0]
  <2> HIDE DEF c
  <2>1. g \in [col : Collectors, src : [Sources -> SourceStates]]
    BY DEF Groups
  <2> QED BY <1>5, <2>1 DEF SourceStates
<1> HIDE DEF e
<1> DEFINE r == 0
<1>7. r \in Nat /\ d = [e EXCEPT !.src[name].record = r]
  BY <1>6
<1> HIDE DEF r
<1> QED BY <1>4, <1>7, GroupSource

LEMMA AddUnitKept ==
  ASSUME NEW b, NEW g \in Groups(b), NEW name \in Sources, NEW width \in Nat,
         NEW d, d = AddUnit(g, name, width)
  PROVE  d \in Groups(b)
<1> DEFINE room == IF g.src[name].record + width > FrameChunk THEN FlushRecord(g, name) ELSE g
           added == [room EXCEPT !.src[name].record = @ + width]
<1>1. room \in Groups(b)
  <2> DEFINE f == FlushRecord(g, name)
  <2>1. f \in Groups(b)
    <3>1. f = FlushRecord(g, name)
      OBVIOUS
    <3> HIDE DEF f
    <3> QED BY <3>1, FlushRecordKept
  <2>2. CASE g.src[name].record + width > FrameChunk
    BY <2>1, <2>2
  <2>3. CASE ~ (g.src[name].record + width > FrameChunk)
    BY <2>3
  <2> QED BY <2>2, <2>3
<1>2. d = IF added.src[name].record = FrameChunk THEN FlushRecord(added, name) ELSE added
  BY Zenon DEF AddUnit
<1>3. added \in Groups(b)
  <2> HIDE DEF room
  <2> DEFINE r == room.src[name].record + width
  <2>1. r \in Nat
    <3>1. room.src[name].record \in Nat
      BY <1>1, GroupFields
    <3> QED BY <3>1
  <2>2. added = [room EXCEPT !.src[name].record = r]
    OBVIOUS
  <2> HIDE DEF r, added
  <2> QED BY <1>1, <2>1, <2>2, GroupSource
<1> HIDE DEF added
<1>4. CASE added.src[name].record = FrameChunk
  <2>1. d = FlushRecord(added, name)
    BY <1>2, <1>4
  <2> QED BY <1>3, <2>1, FlushRecordKept
<1>5. CASE added.src[name].record # FrameChunk
  BY <1>2, <1>3, <1>5
<1> QED BY <1>4, <1>5

(***************************************************************************)
(* The folds over the units of a write and over the sources.               *)
(***************************************************************************)
LEMMA MaxChooses ==
  ASSUME NEW m \in Nat
  PROVE  Chooses([s \in SUBSET (1..m) |-> Max(s)], m)
<1> DEFINE ch == [s \in SUBSET (1..m) |-> Max(s)]
<1>1. ASSUME NEW s \in SUBSET (1..m), s # {}
      PROVE  ch[s] \in s
  <2>1. s \subseteq Nat /\ \A x \in s : x <= m
    OBVIOUS
  <2>2. Max(s) \in s
    BY <1>1, <2>1, MaxOf
  <2> QED BY <2>2
<1> HIDE DEF ch
<1>2. Chooses(ch, m)
  BY <1>1 DEF Chooses
<1> QED BY <1>2 DEF ch

\* f folds the elements of 1..m from the left, from base, by st.
LeftFold(m, base, st, f) ==
  f = [s \in SUBSET (1..m) |->
         IF s = {} THEN base ELSE st[<<Max(s), f[s \ {Max(s)}]>>]]

\* A fold of steps that stay in a set exists.
LEMMA LeftFoldExists ==
  ASSUME NEW m \in Nat, NEW X, NEW base \in X, NEW st \in [(1..m) \X X -> X]
  PROVE  \E f \in FoldFunctions(m, X) : LeftFold(m, base, st, f)
<1> DEFINE ch == [s \in SUBSET (1..m) |-> Max(s)]
<1>1. Chooses(ch, m)
  BY MaxChooses
<1>2. \A s \in SUBSET (1..m) : ch[s] = Max(s)
  OBVIOUS
<1> HIDE DEF ch
<1>3. PICK f \in FoldFunctions(m, X) : f = FoldBody(base, st, ch, m, f)
  <2>1. Foldable(m, X, base, st, ch)
    BY <1>1 DEF Foldable
  <2> QED BY <2>1, FoldExists
<1>4. FoldBody(base, st, ch, m, f)
        = [s \in SUBSET (1..m) |-> IF s = {} THEN base ELSE st[<<Max(s), f[s \ {Max(s)}]>>]]
  BY <1>2 DEF FoldBody
<1> QED BY <1>3, <1>4 DEF LeftFold

\* What every step of a fold keeps, the fold keeps.
LEMMA LeftFoldKept ==
  ASSUME NEW m \in Nat, NEW X, NEW F, F[{}] \in X,
         \A s \in SUBSET (1..m) : s # {} /\ F[s \ {Max(s)}] \in X => F[s] \in X
  PROVE  F[1..m] \in X
<1> DEFINE ch == [s \in SUBSET (1..m) |-> Max(s)]
           G == {s \in SUBSET (1..m) : F[s] \in X}
<1>1. Chooses(ch, m)
  BY MaxChooses
<1>2. {} \in G
  OBVIOUS
<1>3. \A s \in SUBSET (1..m) : s # {} /\ s \ {ch[s]} \in G => s \in G
  OBVIOUS
<1>4. \A s \in SUBSET (1..m) : s \in G
  <2> HIDE DEF G, ch
  <2> QED BY <1>1, <1>2, <1>3, FoldInduction
<1> QED BY <1>4

\* The largest element of a part of 1..m.
LEMMA MaxIn ==
  ASSUME NEW m \in Nat, NEW s \in SUBSET (1..m), s # {}
  PROVE  Max(s) \in 1..m
<1>1. s \subseteq Nat /\ \A x \in s : x <= m
  OBVIOUS
<1>2. Max(s) \in s
  BY <1>1, MaxOf
<1> QED BY <1>2

\* The units of a write.
UnitsBody(g, name, units, f) ==
  [s \in SUBSET (DOMAIN units) |->
     IF s = {} THEN g ELSE AddUnit(f[s \ {Max(s)}], name, units[Max(s)])]

UnitsFunction(g, name, units) == CHOOSE f : f = UnitsBody(g, name, units, f)

AddUnits(g, name, units) == FoldLeft(LAMBDA h, width : AddUnit(h, name, width), g, units)

LEMMA UnitsUnfold ==
  ASSUME NEW g, NEW name, NEW units
  PROVE  AddUnits(g, name, units) = UnitsFunction(g, name, units)[DOMAIN units]
BY Zenon DEF AddUnits, FoldLeft, MapThenFoldSet, UnitsFunction, UnitsBody

LEMMA AddUnitsKept ==
  ASSUME NEW b, NEW g \in Groups(b), NEW name \in Sources, NEW units \in Seq(Nat)
  PROVE  AddUnits(g, name, units) \in Groups(b)
<1> DEFINE m == Len(units)
           X == Groups(b)
           st == [p \in (1..m) \X X |-> AddUnit(p[2], name, units[p[1]])]
           F == UnitsFunction(g, name, units)
<1>0. m \in Nat /\ DOMAIN units = 1..m
  OBVIOUS
<1>1. ASSUME NEW i \in 1..m, NEW h \in X
      PROVE  AddUnit(h, name, units[i]) \in X
  <2> DEFINE w == units[i]
             d == AddUnit(h, name, w)
  <2>1. w \in Nat /\ d = AddUnit(h, name, w)
    OBVIOUS
  <2> HIDE DEF d, w
  <2>2. d \in Groups(b)
    BY <2>1, AddUnitKept
  <2> QED BY <2>2 DEF d, w
<1>2. st \in [(1..m) \X X -> X]
  <2> SUFFICES ASSUME NEW i \in 1..m, NEW h \in X
               PROVE  AddUnit(h, name, units[i]) \in X
    OBVIOUS
  <2> QED BY <1>1
<1>3. PICK f \in [SUBSET (1..m) -> X] : LeftFold(m, g, st, f)
  <2>1. g \in X
    OBVIOUS
  <2> HIDE DEF m, X, st
  <2>2. \E f \in FoldFunctions(m, X) : LeftFold(m, g, st, f)
    BY <1>0, <1>2, <2>1, LeftFoldExists
  <2> QED BY <2>2 DEF FoldFunctions
<1>4. f = UnitsBody(g, name, units, f)
  <2> DEFINE v(s) == IF s = {} THEN g ELSE AddUnit(f[s \ {Max(s)}], name, units[Max(s)])
  <2>1. ASSUME NEW s \in SUBSET (1..m)
        PROVE  f[s] = v(s)
    <3>1. f[s] = IF s = {} THEN g ELSE st[<<Max(s), f[s \ {Max(s)}]>>]
      <4> HIDE DEF m, X, st
      <4> QED BY <1>3 DEF LeftFold
    <3>2. CASE s = {}
      BY <3>1, <3>2
    <3>3. CASE s # {}
      <4> DEFINE x == Max(s)
                 h == f[s \ {Max(s)}]
      <4>1. x \in 1..m
        <5> HIDE DEF m
        <5> QED BY <1>0, <3>3, MaxIn
      <4>2. h \in X
        <5> s \ {Max(s)} \in SUBSET (1..m)
          OBVIOUS
        <5> HIDE DEF X, m
        <5> QED OBVIOUS
      <4> HIDE DEF x, h, X
      <4>3. st[<<x, h>>] = AddUnit(h, name, units[x])
        BY <4>1, <4>2
      <4> HIDE DEF st
      <4>4. f[s] = st[<<x, h>>]
        BY <3>1, <3>3 DEF x, h
      <4> QED BY <3>3, <4>3, <4>4 DEF x, h
    <3> QED BY <3>2, <3>3
  <2>2. f = [s \in SUBSET (1..m) |-> f[s]]
    <3> HIDE DEF X
    <3> QED BY <1>3
  <2>3. f = [s \in SUBSET (1..m) |-> v(s)]
    <3> HIDE DEF v, m
    <3> QED BY <2>1, <2>2
  <2> QED BY <1>0, <2>3, Zenon DEF UnitsBody
<1>5. F = UnitsBody(g, name, units, F)
  BY <1>4, Zenon DEF UnitsFunction
<1> HIDE DEF F
<1>6. \A s \in SUBSET (1..m) :
        F[s] = IF s = {} THEN g ELSE AddUnit(F[s \ {Max(s)}], name, units[Max(s)])
  <2>1. DOMAIN units = 1..m
    BY <1>0
  <2> HIDE DEF m
  <2> QED BY <1>5, <2>1, Zenon DEF UnitsBody
<1>7. F[{}] \in X
  <2>1. F[{}] = g
    BY <1>6
  <2> QED BY <2>1
<1>8. ASSUME NEW s \in SUBSET (1..m), s # {}, F[s \ {Max(s)}] \in X
      PROVE  F[s] \in X
  <2>1. Max(s) \in 1..m
    <3> HIDE DEF m
    <3> QED BY <1>0, <1>8, MaxIn
  <2> DEFINE h == F[s \ {Max(s)}]
             x == Max(s)
  <2>2. h \in X /\ x \in 1..m /\ F[s] = AddUnit(h, name, units[x])
    BY <1>6, <1>8, <2>1
  <2> HIDE DEF h, x, X
  <2> QED BY <1>1, <2>2
<1>9. F[1..m] \in X
  <2> HIDE DEF X, m
  <2> QED BY <1>0, <1>7, <1>8, LeftFoldKept
<1>10. AddUnits(g, name, units) = F[1..m]
  <2>1. DOMAIN units = 1..m
    BY <1>0
  <2> HIDE DEF m
  <2> QED BY <2>1, UnitsUnfold DEF F
<1> QED BY <1>9, <1>10

\* consumeSourceChunk.
LEMMA ConsumeSourceKept ==
  ASSUME NEW b, NEW g \in Groups(b), NEW name \in Sources, NEW p \in Seq(RawBytes),
         NEW final \in BOOLEAN, NEW d, d = ConsumeSource(g, name, p, final)
  PROVE  d \in Groups(b)
<1> DEFINE in == g.src[name].pending \o p
           x == EscapeValidPrefix(in, final, RecordEscape)
           e == [g EXCEPT !.src[name].pending = x.rest]
<1>1. in \in Seq(RawBytes)
  <2>1. g.src[name].pending \in Seq(RawBytes)
    BY GroupFields
  <2> QED BY <2>1, ConcatType
<1>2. RecordEscape \in Seq(Nat)
  BY DEF RecordEscape, EscapeBytes
<1>3. x \in Decoded
  <2> HIDE DEF in
  <2> QED BY <1>1, <1>2, DecodeType, Zenon
<1>4. x.units \in Seq(Nat) /\ x.rest \in Seq(RawBytes)
  <2> HIDE DEF x
  <2> QED BY <1>3 DEF Decoded
<1>5. d = AddUnits(e, name, x.units)
  BY Zenon DEF ConsumeSource, AddUnits
<1>6. e \in Groups(b)
  <2> DEFINE r == x.rest
  <2>1. r \in Seq(RawBytes) /\ e = [g EXCEPT !.src[name].pending = r]
    BY <1>4
  <2> HIDE DEF e, r
  <2> QED BY <2>1, GroupPending
<1> HIDE DEF e, x
<1> QED BY <1>4, <1>5, <1>6, AddUnitsKept

LEMMA FinishSourceKept ==
  ASSUME NEW b, NEW g \in Groups(b), NEW name \in Sources, NEW d, d = FinishSource(g, name)
  PROVE  d \in Groups(b)
<1> DEFINE p == <<>>
           o == TRUE
           e == ConsumeSource(g, name, p, o)
<1>1. d = IF e.src[name].record > 0 THEN FlushRecord(e, name) ELSE e
  BY Zenon DEF FinishSource
<1>2. p \in Seq(RawBytes) /\ o \in BOOLEAN /\ e = ConsumeSource(g, name, p, o)
  OBVIOUS
<1> HIDE DEF p, o, e
<1>3. e \in Groups(b)
  BY <1>2, ConsumeSourceKept
<1>4. CASE e.src[name].record > 0
  <2>1. d = FlushRecord(e, name)
    BY <1>1, <1>4
  <2> QED BY <1>3, <2>1, FlushRecordKept
<1>5. CASE ~ (e.src[name].record > 0)
  BY <1>1, <1>3, <1>5
<1> QED BY <1>4, <1>5

\* The declared sources, in their order.
LEMMA SourceOrder == SetToSeq(Sources) \in Seq(Sources)
<1>1. IsFiniteSet(Sources)
  BY OutputConstants
<1> DEFINE m == Cardinality(Sources)
<1>2. m \in Nat
  BY <1>1, FS_CardinalityType
<1>3. \E f \in [1..m -> Sources] : IsInjective(f)
  <2>1. PICK n \in Nat : ExistsBijection(1..n, Sources)
    BY <1>1, FS_NatBijection
  <2>2. n = m
    BY <1>1, <2>1, FS_CountingElements
  <2>3. PICK f : f \in Bijection(1..m, Sources)
    BY <2>1, <2>2 DEF ExistsBijection
  <2>4. f \in [1..m -> Sources] /\ \A i, j \in 1..m : f[i] = f[j] => i = j
    BY <2>3 DEF Bijection, Injection, IsInjective
  <2>5. IsInjective(f)
    <3> HIDE DEF m
    <3> QED BY <2>4 DEF IsInjective
  <2> QED BY <2>4, <2>5
<1>4. SetToSeq(Sources) \in [1..m -> Sources]
  <2> DEFINE T == {f \in [1..m -> Sources] : IsInjective(f)}
  <2>1. SetToSeq(Sources) = CHOOSE f \in [1..m -> Sources] : IsInjective(f)
    BY Zenon DEF SetToSeq
  <2> QED BY <1>3, <2>1, Zenon
<1> HIDE DEF m
<1> QED BY <1>2, <1>4

\* TextCollectorGroup.Output finishes the sources one after the other.
FinishBody(g, names, f) ==
  [s \in SUBSET (DOMAIN names) |->
     IF s = {} THEN g ELSE FinishSource(f[s \ {Max(s)}], names[Max(s)])]

FinishFunction(g, names) == CHOOSE f : f = FinishBody(g, names, f)

LEMMA FinishUnfold ==
  ASSUME NEW g, NEW names
  PROVE  FoldLeft(FinishSource, g, names) = FinishFunction(g, names)[DOMAIN names]
BY Zenon DEF FoldLeft, MapThenFoldSet, FinishFunction, FinishBody

LEMMA FinishSourcesKept ==
  ASSUME NEW b, NEW g \in Groups(b), NEW names \in Seq(Sources)
  PROVE  FoldLeft(FinishSource, g, names) \in Groups(b)
<1> DEFINE m == Len(names)
           X == Groups(b)
           st == [p \in (1..m) \X X |-> FinishSource(p[2], names[p[1]])]
           F == FinishFunction(g, names)
<1>0. m \in Nat /\ DOMAIN names = 1..m
  OBVIOUS
<1>1. ASSUME NEW i \in 1..m, NEW h \in X
      PROVE  FinishSource(h, names[i]) \in X
  <2> DEFINE w == names[i]
             d == FinishSource(h, w)
  <2>1. w \in Sources /\ d = FinishSource(h, w)
    OBVIOUS
  <2> HIDE DEF d, w
  <2>2. d \in Groups(b)
    BY <2>1, FinishSourceKept
  <2> QED BY <2>2 DEF d, w
<1>2. st \in [(1..m) \X X -> X]
  <2> SUFFICES ASSUME NEW i \in 1..m, NEW h \in X
               PROVE  FinishSource(h, names[i]) \in X
    OBVIOUS
  <2> QED BY <1>1
<1>3. PICK f \in [SUBSET (1..m) -> X] : LeftFold(m, g, st, f)
  <2>1. g \in X
    OBVIOUS
  <2> HIDE DEF m, X, st
  <2>2. \E f \in FoldFunctions(m, X) : LeftFold(m, g, st, f)
    BY <1>0, <1>2, <2>1, LeftFoldExists
  <2> QED BY <2>2 DEF FoldFunctions
<1>4. f = FinishBody(g, names, f)
  <2> DEFINE v(s) == IF s = {} THEN g ELSE FinishSource(f[s \ {Max(s)}], names[Max(s)])
  <2>1. ASSUME NEW s \in SUBSET (1..m)
        PROVE  f[s] = v(s)
    <3>1. f[s] = IF s = {} THEN g ELSE st[<<Max(s), f[s \ {Max(s)}]>>]
      <4> HIDE DEF m, X, st
      <4> QED BY <1>3 DEF LeftFold
    <3>2. CASE s = {}
      BY <3>1, <3>2
    <3>3. CASE s # {}
      <4> DEFINE x == Max(s)
                 h == f[s \ {Max(s)}]
      <4>1. x \in 1..m
        <5> HIDE DEF m
        <5> QED BY <1>0, <3>3, MaxIn
      <4>2. h \in X
        <5> s \ {Max(s)} \in SUBSET (1..m)
          OBVIOUS
        <5> HIDE DEF X, m
        <5> QED OBVIOUS
      <4> HIDE DEF x, h, X
      <4>3. st[<<x, h>>] = FinishSource(h, names[x])
        BY <4>1, <4>2
      <4> HIDE DEF st
      <4>4. f[s] = st[<<x, h>>]
        BY <3>1, <3>3 DEF x, h
      <4> QED BY <3>3, <4>3, <4>4 DEF x, h
    <3> QED BY <3>2, <3>3
  <2>2. f = [s \in SUBSET (1..m) |-> f[s]]
    <3> HIDE DEF X
    <3> QED BY <1>3
  <2>3. f = [s \in SUBSET (1..m) |-> v(s)]
    <3> HIDE DEF v, m
    <3> QED BY <2>1, <2>2
  <2> QED BY <1>0, <2>3, Zenon DEF FinishBody
<1>5. F = FinishBody(g, names, F)
  BY <1>4, Zenon DEF FinishFunction
<1> HIDE DEF F
<1>6. \A s \in SUBSET (1..m) :
        F[s] = IF s = {} THEN g ELSE FinishSource(F[s \ {Max(s)}], names[Max(s)])
  <2>1. DOMAIN names = 1..m
    BY <1>0
  <2> HIDE DEF m
  <2> QED BY <1>5, <2>1, Zenon DEF FinishBody
<1>7. F[{}] \in X
  <2>1. F[{}] = g
    BY <1>6
  <2> QED BY <2>1
<1>8. ASSUME NEW s \in SUBSET (1..m), s # {}, F[s \ {Max(s)}] \in X
      PROVE  F[s] \in X
  <2>1. Max(s) \in 1..m
    <3> HIDE DEF m
    <3> QED BY <1>0, <1>8, MaxIn
  <2> DEFINE h == F[s \ {Max(s)}]
             x == Max(s)
  <2>2. h \in X /\ x \in 1..m /\ F[s] = FinishSource(h, names[x])
    BY <1>6, <1>8, <2>1
  <2> HIDE DEF h, x, X
  <2> QED BY <1>1, <2>2
<1>9. F[1..m] \in X
  <2> HIDE DEF X, m
  <2> QED BY <1>0, <1>7, <1>8, LeftFoldKept
<1>10. FoldLeft(FinishSource, g, names) = F[1..m]
  <2>1. DOMAIN names = 1..m
    BY <1>0
  <2> HIDE DEF m
  <2> QED BY <2>1, FinishUnfold DEF F
<1> QED BY <1>9, <1>10

(***************************************************************************)
(* Frames and budgets.                                                     *)
(***************************************************************************)
LEMMA QuotientType ==
  ASSUME NEW a \in Nat, NEW k \in Nat \ {0}
  PROVE  a \div k \in Nat
OBVIOUS

LEMMA QuotientMonotone ==
  ASSUME NEW a \in Nat, NEW b \in Nat, a <= b, NEW k \in Nat \ {0}
  PROVE  a \div k <= b \div k
OBVIOUS

LEMMA ProductMonotone ==
  ASSUME NEW a \in Nat, NEW b \in Nat, a <= b, NEW k \in Nat
  PROVE  k * a \in Nat /\ k * b \in Nat /\ k * a <= k * b
OBVIOUS

LEMMA FrameMonotone ==
  ASSUME NEW a \in Nat, NEW b \in Nat, a <= b
  PROVE  /\ FramedBlockSize(a) \in Nat /\ FramedBlockSize(a) <= FramedBlockSize(b)
         /\ SingleTextFrameSize(a) \in Nat /\ SingleTextFrameSize(a) <= SingleTextFrameSize(b)
<1>1. FrameChunk \in Nat \ {0} /\ ChunkCost \in Nat /\ HeaderFrame \in Nat /\ BlockFrame \in Nat
  BY CollectorConstants
<1>2. a + FrameChunk - 1 \in Nat /\ b + FrameChunk - 1 \in Nat
      /\ a + FrameChunk - 1 <= b + FrameChunk - 1
  BY <1>1
<1> DEFINE x == (a + FrameChunk - 1) \div FrameChunk
           y == (b + FrameChunk - 1) \div FrameChunk
<1>3. x \in Nat /\ y \in Nat /\ x <= y
  BY <1>1, <1>2, QuotientType, QuotientMonotone
<1>4. Chunks(a) = x /\ Chunks(b) = y
  BY DEF Chunks
<1> HIDE DEF x, y
<1>5. ChunkCost * x \in Nat /\ ChunkCost * y \in Nat /\ ChunkCost * x <= ChunkCost * y
  BY <1>1, <1>3, ProductMonotone
<1> DEFINE u == ChunkCost * x
           v == ChunkCost * y
<1>6. FramedBlockSize(a) = BlockFrame + u + a /\ FramedBlockSize(b) = BlockFrame + v + b
  BY <1>4 DEF FramedBlockSize
<1>7. u \in Nat /\ v \in Nat /\ u <= v
  BY <1>5
<1> HIDE DEF u, v
<1>8. FramedBlockSize(a) \in Nat /\ FramedBlockSize(b) \in Nat /\ FramedBlockSize(a) <= FramedBlockSize(b)
  BY <1>1, <1>6, <1>7
<1> QED BY <1>1, <1>8 DEF SingleTextFrameSize

LEMMA ReservationType == Reservation \in Nat /\ MarkerBytes \in Nat /\ TrailerBytes \in Nat
                         /\ MaxMetaBytes \in Nat /\ Reservation = TrailerBytes + MaxMetaBytes
BY CollectorConstants DEF Reservation

LEMMA LimitsType ==
  ASSUME NEW l \in Limits
  PROVE  l.text \in Nat /\ l.framed \in Nat /\ l.blocks \in Nat /\ l.image \in Nat
BY OutputConstants

\* The body budget leaves room for the largest trailer and a marker, if anything does.
LEMMA BodyFits ==
  ASSUME NEW l \in Limits, NEW b, b = MaxCollectorBody(l)
  PROVE  /\ b \in Nat
         /\ \/ b = 0
            \/ /\ b + Reservation + MarkerBytes <= l.text
               /\ SingleTextFrameSize(b + Reservation + MarkerBytes) <= l.framed
<1> DEFINE hi == l.text - Reservation - MarkerBytes
           fits == {n \in 0..hi : SingleTextFrameSize(n + Reservation + MarkerBytes) <= l.framed}
           S == fits \cup {0}
<1>1. l.text \in Nat /\ Reservation \in Nat /\ MarkerBytes \in Nat
  BY LimitsType, ReservationType
<1>2. hi \in Int
  BY <1>1
<1>3. S \subseteq Nat /\ S # {} /\ \A n \in S : n <= l.text
  BY <1>1
<1>4. b = Max(S)
  BY Zenon DEF MaxCollectorBody
<1>5. b \in S
  <2> HIDE DEF S
  <2> QED BY <1>1, <1>3, <1>4, MaxOf
<1> QED BY <1>1, <1>5

\* What a collector renders is within the limits of its call.
LEMMA RenderedFits ==
  ASSUME NEW l \in Limits, NEW c, IsCollector(c), WithinBudget(c), c.budget = MaxCollectorBody(l),
         NEW m \in Nat, m <= MaxMetaBytes,
         \/ c.budget # 0
         \/ /\ Reservation + MarkerBytes <= l.text
            /\ SingleTextFrameSize(Reservation + MarkerBytes) <= l.framed
  PROVE  ~ OverLimit(RenderedBytes(c, m), l)
<1> DEFINE b == c.budget
           kept == Bytes(c, c.window)
           r == RenderedBytes(c, m)
           most == b + Reservation + MarkerBytes
<1>1. b \in Nat /\ kept \in Nat /\ kept <= b
  <2>1. c.budget \in Nat /\ c.stream \in Seq(Nat) /\ c.window \in Seq(WindowOf(c))
    BY CollectorFields
  <2> QED BY <2>1, BytesType DEF WithinBudget
<1>2. most <= l.text /\ SingleTextFrameSize(most) <= l.framed
  <2>1. b # 0 => most <= l.text /\ SingleTextFrameSize(most) <= l.framed
    BY BodyFits
  <2>2. b = 0 => most = Reservation + MarkerBytes
    BY ReservationType
  <2> QED BY <2>1, <2>2
<1>3. r \in Nat /\ r <= most
  <2>1. r = kept + (IF Truncated(c) THEN MarkerBytes ELSE 0) + TrailerBytes + m
    BY DEF RenderedBytes, KeptLogicalBytes
  <2> HIDE DEF r, kept, b
  <2>2. CASE Truncated(c)
    BY <1>1, <2>1, <2>2, ReservationType
  <2>3. CASE ~Truncated(c)
    BY <1>1, <2>1, <2>3, ReservationType
  <2> QED BY <2>2, <2>3
<1>4. most \in Nat
  BY <1>1, ReservationType
<1> HIDE DEF r, most
<1>5. SingleTextFrameSize(r) \in Nat /\ SingleTextFrameSize(r) <= SingleTextFrameSize(most)
  BY <1>3, <1>4, FrameMonotone
<1>6. SingleTextFrameSize(most) \in Nat
  BY <1>4, FrameMonotone
<1>7. l.text \in Nat /\ l.framed \in Nat
  BY LimitsType
<1>8. r <= l.text /\ SingleTextFrameSize(r) <= l.framed
  BY <1>2, <1>3, <1>4, <1>5, <1>6, <1>7
<1> QED BY <1>3, <1>5, <1>7, <1>8 DEF OverLimit, r

(***************************************************************************)
(* What the invariant says of a collector.                                 *)
(***************************************************************************)
LEMMA RunIncreasing ==
  ASSUME NEW a \in Nat, NEW b \in Nat, a <= b + 1
  PROVE  Increasing(Positions(a, b))
<1> DEFINE w == Positions(a, b)
<1>1. Len(w) = b - a + 1
  BY PositionsType
<1>2. \A i \in 1..(b - a + 1) : w[i] = a + i - 1
  BY DEF Positions
<1> HIDE DEF w
<1>3. ASSUME NEW i \in 1..(Len(w) - 1)
      PROVE  w[i] < w[i + 1]
  <2>1. i \in 1..(b - a + 1) /\ i + 1 \in 1..(b - a + 1)
    BY <1>1
  <2>2. w[i] = a + i - 1 /\ w[i + 1] = a + (i + 1) - 1
    BY <1>2, <2>1
  <2> QED BY <2>2
<1>4. Increasing(w)
  BY <1>3 DEF Increasing
<1> QED BY <1>4 DEF w

\* A head followed by positions beyond it, in order.
LEMMA OrderedEnds ==
  ASSUME NEW n \in Nat, NEW h \in 0..n, NEW tail \in Seq((h + 1)..n), Increasing(tail),
         NEW w, w = Positions(1, h) \o tail
  PROVE  SubSeq(w, 1, h) = Positions(1, h) /\ Increasing(w)
<1> DEFINE head == Positions(1, h)
<1>1. head \in Seq(Nat) /\ Len(head) = h /\ h \in Nat
  <2>1. 1 \in Nat /\ h \in Nat /\ 1 <= h + 1 /\ h - 1 + 1 = h
    OBVIOUS
  <2> QED BY <2>1, PositionsType
<1>2. tail \in Seq(Nat)
  <2>1. (h + 1)..n \subseteq Nat
    OBVIOUS
  <2> QED BY <2>1, SeqWiden
<1>3. \A i \in 1..h : head[i] = i
  BY DEF Positions
<1>4. \A i \in 1..Len(tail) : tail[i] >= h + 1 /\ tail[i] \in Nat
  OBVIOUS
<1>5. w = head \o tail
  OBVIOUS
<1> HIDE DEF head
<1>6. SubSeq(w, 1, h) = head
  <2>1. SubSeq(head \o tail, 1, Len(head)) = head
    BY <1>1, <1>2, CutConcat
  <2> QED BY <1>1, <1>5, <2>1
<1>7. /\ Len(w) = h + Len(tail) /\ Len(tail) \in Nat
      /\ (\A i \in 1..h : w[i] = head[i])
      /\ (\A i \in 1..Len(tail) : w[h + i] = tail[i])
  <2>1. Joined(head, tail, w)
    BY <1>1, <1>2, <1>5, JoinedConcat
  <2> QED BY <1>1, <2>1 DEF Joined
<1>8. ASSUME NEW i \in 1..(Len(w) - 1)
      PROVE  w[i] < w[i + 1]
  <2>1. CASE i < h
    <3>1. i \in 1..h /\ i + 1 \in 1..h
      BY <1>1, <1>7, <2>1
    <3>2. w[i] = i /\ w[i + 1] = i + 1
      BY <1>3, <1>7, <3>1
    <3> QED BY <3>2
  <2>2. CASE i = h
    <3>1. i \in 1..h /\ 1 \in 1..Len(tail) /\ i + 1 = h + 1
      BY <1>1, <1>7, <2>2
    <3>2. w[i] = i /\ w[h + 1] = tail[1]
      BY <1>3, <1>7, <3>1
    <3>3. tail[1] >= h + 1 /\ tail[1] \in Nat
      BY <1>4, <3>1
    <3> QED BY ONLY <1>1, <2>2, <3>1, <3>2, <3>3
  <2>3. CASE i > h
    <3> DEFINE k == i - h
    <3>1. k \in 1..(Len(tail) - 1) /\ k \in 1..Len(tail) /\ k + 1 \in 1..Len(tail)
          /\ i = h + k /\ i + 1 = h + (k + 1)
      BY <1>1, <1>7, <2>3
    <3> HIDE DEF k
    <3>2. w[i] = tail[k] /\ w[i + 1] = tail[k + 1]
      BY <1>7, <3>1
    <3>3. tail[k] < tail[k + 1]
      BY <3>1 DEF Increasing
    <3> QED BY <3>2, <3>3
  <2>4. i \in Nat /\ h \in Nat
    BY <1>1
  <2> QED BY <2>1, <2>2, <2>3, <2>4
<1> QED BY <1>6, <1>8 DEF Increasing, head

\* What the window of a HeadTail collector is, with or without records.
Kept(c) ==
  /\ WithinBudget(c)
  /\ SubSeq(c.window, 1, c.head) = Positions(1, c.head)
  /\ Increasing(c.window)
  /\ ~c.omitted => Len(c.window) = Len(c.stream)

LEMMA AllKept ==
  ASSUME NEW c, IsCollector(c), KeepsAll(c)
  PROVE  Kept(c) /\ EndsOf(c, Len(c.stream))
<1> DEFINE n == Len(c.stream)
           w == Positions(1, n)
<1>1. n \in Nat /\ 1 \in Nat /\ 1 <= n + 1 /\ n - 1 + 1 = n
  BY CollectorFields
<1>2. c.window = w /\ c.head = n
  BY DEF KeepsAll
<1>3. w \in Seq(Nat) /\ Len(w) = n
  BY <1>1, PositionsType
<1>4. Increasing(w)
  BY <1>1, RunIncreasing
<1>5. SubSeq(w, 1, n) = w
  <2> HIDE DEF w, n
  <2> QED BY <1>3
<1>6. w = w \o Positions(n + 1, n)
  <2>1. n <= n
    BY <1>1
  <2> QED BY <1>1, <2>1, PositionsConcat
<1>7. EndsOf(c, n)
  <2>1. n \in 0..n /\ n \in n..n
    BY <1>1
  <2> QED BY <1>2, <1>6, <2>1 DEF EndsOf
<1> HIDE DEF w
<1> QED BY <1>2, <1>3, <1>4, <1>5, <1>7 DEF Kept, KeepsAll, w

LEMMA EndsKept ==
  ASSUME NEW c, IsCollector(c), c.omitted, NEW tail \in Seq((c.head + 1)..Len(c.stream)),
         KeepsEnds(c, tail), Increasing(tail)
  PROVE  Kept(c)
<1> DEFINE n == Len(c.stream)
           h == c.head
           head == Positions(0 + 1, h)
<1>1. n \in Nat /\ h \in 0..n /\ c.stream \in Seq(Nat) /\ 0 \in 0..n /\ 0 + 1 = 1 /\ h - 0 = h
      /\ c.budget \in Nat
  <2>1. n \in Nat /\ h \in Nat /\ c.stream \in Seq(Nat) /\ c.budget \in Nat
    BY CollectorFields
  <2>2. h <= n
    BY DEF KeepsEnds
  <2> QED BY <2>1, <2>2
<1>2. SubSeq(c.window, 1, h) = Positions(1, h) /\ Increasing(c.window)
  <2> DEFINE w == c.window
  <2>1. w = Positions(1, h) \o tail
    BY DEF KeepsEnds
  <2>2. tail \in Seq((h + 1)..n) /\ Increasing(tail)
    OBVIOUS
  <2> HIDE DEF n, h, w
  <2> QED BY <1>1, <2>1, <2>2, OrderedEnds DEF w
<1>3. WithinBudget(c)
  <2>1. head \in Seq(WindowOf(c))
    BY <1>1, RunType
  <2>2. tail \in Seq(WindowOf(c))
    <3>1. (h + 1)..n \subseteq WindowOf(c)
      BY <1>1 DEF WindowOf
    <3> QED BY <3>1, SeqWiden
  <2>3. c.window = head \o tail /\ Bytes(c, head) <= HeadBudget(c) /\ Bytes(c, tail) <= TailBudget(c)
    BY <1>1 DEF KeepsEnds
  <2> HIDE DEF head
  <2>4. Bytes(c, head \o tail) = Bytes(c, head) + Bytes(c, tail)
    BY <1>1, <2>1, <2>2, BytesConcat
  <2>5. Bytes(c, head) \in Nat /\ Bytes(c, tail) \in Nat
    BY <1>1, <2>1, <2>2, BytesType
  <2>6. HeadBudget(c) \in Nat /\ TailBudget(c) \in Nat /\ HeadBudget(c) + TailBudget(c) = c.budget
    BY <1>1, BudgetHalves
  <2> QED BY <2>3, <2>4, <2>5, <2>6 DEF WithinBudget
<1> QED BY <1>2, <1>3 DEF Kept

LEMMA RecordsKept ==
  ASSUME NEW c, RecordCollector(c)
  PROVE  Kept(c)
<1>1. IsCollector(c) /\ c.omitted \in BOOLEAN
  BY CollectorFields DEF RecordCollector
<1>2. CASE ~c.omitted
  BY <1>1, <1>2, AllKept DEF RecordCollector, RecordWindow
<1>3. CASE c.omitted
  <2>1. PICK tail \in Seq((c.head + 1)..Len(c.stream)) : KeepsEnds(c, tail) /\ Increasing(tail)
    BY <1>3 DEF RecordCollector, RecordWindow
  <2> QED BY <1>1, <1>3, <2>1, EndsKept
<1> QED BY <1>1, <1>2, <1>3

LEMMA PlainKept ==
  ASSUME NEW c, Plain(c), c.mode = "headTail"
  PROVE  Kept(c) /\ EndsOf(c, Len(c.stream))
<1> DEFINE n == Len(c.stream)
<1>1. IsCollector(c) /\ c.omitted \in BOOLEAN /\ PlainWindow(c) /\ n \in Nat /\ c.head \in Nat
  BY CollectorFields DEF Plain
<1>2. CASE ~c.omitted
  BY <1>1, <1>2, AllKept DEF PlainWindow
<1>3. CASE c.omitted
  <2>1. PICK j \in c.head..n : KeepsEnds(c, Positions(j + 1, n))
    BY <1>1, <1>3 DEF PlainWindow
  <2> DEFINE tail == Positions(j + 1, n)
  <2>2. j \in Nat /\ j + 1 \in Nat /\ j + 1 <= n + 1 /\ c.head \in 0..n /\ j \in c.head..n
    BY <1>1, <2>1
  <2>3. tail \in Seq((j + 1)..n) /\ Increasing(tail)
    BY <1>1, <2>2, PositionsType, RunIncreasing
  <2>4. tail \in Seq((c.head + 1)..n)
    <3>1. (j + 1)..n \subseteq (c.head + 1)..n
      BY <1>1, <2>2
    <3> HIDE DEF tail
    <3> QED BY <2>3, <3>1, SeqWiden
  <2>5. c.window = Positions(1, c.head) \o Positions(j + 1, n)
    BY <2>1 DEF KeepsEnds
  <2>6. EndsOf(c, n)
    BY <2>2, <2>5 DEF EndsOf
  <2>7. KeepsEnds(c, tail)
    BY <2>1
  <2> HIDE DEF tail
  <2>8. Kept(c)
    BY <1>1, <1>3, <2>3, <2>4, <2>7, EndsKept
  <2> QED BY <2>6, <2>8
<1> QED BY <1>1, <1>2, <1>3

\* A new collector.
LEMMA NewCollectorKept ==
  ASSUME NEW l \in Limits, NEW mode \in {"prefix", "headTail"}, NEW c, c = NewTextCollector(l, mode)
  PROVE  /\ Plain(c) /\ c.mode = mode /\ c.budget = MaxCollectorBody(l)
         /\ mode = "headTail" => RecordCollector(c)
<1> DEFINE b == MaxCollectorBody(l)
<1>1. b \in Nat
  BY BodyFits
<1>2. c = [mode |-> mode, state |-> "writing", pending |-> <<>>, budget |-> b, stream |-> <<>>,
           window |-> <<>>, head |-> 0, omitted |-> FALSE]
  BY DEF NewTextCollector
<1> HIDE DEF b
<1>3. /\ c.mode = mode /\ c.budget = b /\ c.stream = <<>> /\ c.window = <<>> /\ c.head = 0
      /\ c.omitted = FALSE /\ c \in Collectors
  BY <1>1, <1>2 DEF Collectors
<1>4. IsCollector(c)
  <2>1. <<>> \in Seq(WindowOf(c))
    OBVIOUS
  <2> QED BY <1>3, <2>1 DEF IsCollector
<1>5. WithinBudget(c)
  <2>1. Bytes(c, <<>>) = 0
    BY BytesEmpty
  <2> QED BY <1>1, <1>3, <2>1 DEF WithinBudget
<1>6. KeepsAll(c)
  <2>1. Positions(1, 0) = <<>>
    BY DEF Positions
  <2>2. Len(<<>>) = 0
    OBVIOUS
  <2> QED BY <1>3, <1>5, <2>1, <2>2 DEF KeepsAll
<1>7. PlainWindow(c) /\ RecordWindow(c)
  BY <1>3, <1>6 DEF PlainWindow, RecordWindow
<1>8. OverBudget(c) /\ Overflowed(c) /\ Lost(c)
  BY <1>3, <1>6 DEF OverBudget, Overflowed, Lost, KeepsAll
<1> QED BY <1>3, <1>4, <1>5, <1>7, <1>8 DEF Plain, RecordCollector, b

LEMMA PlainWithin ==
  ASSUME NEW c, Plain(c)
  PROVE  IsCollector(c) /\ WithinBudget(c)
<1>1. IsCollector(c) /\ c.mode \in {"prefix", "headTail"}
  BY CollectorFields DEF Plain
<1>2. CASE c.mode = "prefix"
  BY <1>1, <1>2 DEF Plain
<1>3. CASE c.mode = "headTail"
  BY <1>1, <1>3, PlainKept DEF Kept
<1> QED BY <1>1, <1>2, <1>3

\* TextCollector.Output: the budget error, or an output with a true receipt.
LEMMA RenderOutputKept ==
  ASSUME NEW l \in Limits, NEW c, IsCollector(c), NEW m \in Nat,
         NEW o, o = RenderOutput(c, m, l)
  PROVE  o = [kind |-> "budget"] \/ IsReceipt(o, l)
<1> DEFINE r == RenderedBytes(c, m)
           t == Truncated(c)
           u == SumOf(c.stream) + TrailerBytes + m
<1>1. c.stream \in Seq(Nat) /\ c.window \in Seq(WindowOf(c)) /\ c.omitted \in BOOLEAN
  BY CollectorFields
<1>2. SumOf(c.stream) \in Nat /\ KeptLogicalBytes(c) \in Nat
  BY <1>1, SumType, BytesType DEF KeptLogicalBytes
<1>3. t \in BOOLEAN
  BY <1>1 DEF Truncated
<1>4. r \in Nat /\ u \in Nat
  <2>1. r = KeptLogicalBytes(c) + (IF t THEN MarkerBytes ELSE 0) + TrailerBytes + m
    BY DEF RenderedBytes
  <2>2. (IF t THEN MarkerBytes ELSE 0) \in Nat
    BY ReservationType
  <2> HIDE DEF r, t
  <2>3. r \in Nat
    BY <1>2, <2>1, <2>2, ReservationType
  <2> QED BY <1>2, <2>3, ReservationType
<1>5. ~t => r = u
  BY <1>2, ReservationType DEF RenderedBytes, Truncated
<1>6. o = IF m > MaxMetaBytes \/ OverLimit(r, l) THEN [kind |-> "budget"]
          ELSE [kind |-> "collected", text |-> r, limits |-> l, original |-> SingleTextFrameSize(u),
                kept |-> SingleTextFrameSize(r), truncated |-> t, edited |-> FALSE]
  BY Zenon DEF RenderOutput
<1> HIDE DEF r, t, u
<1>7. SingleTextFrameSize(r) \in Nat /\ SingleTextFrameSize(u) \in Nat
  <2>1. r <= r /\ u <= u
    BY <1>4
  <2> QED BY <1>4, <2>1, FrameMonotone
<1>8. CASE m > MaxMetaBytes \/ OverLimit(r, l)
  BY <1>6, <1>8
<1>9. CASE ~ (m > MaxMetaBytes \/ OverLimit(r, l))
  <2> DEFINE f == SingleTextFrameSize(r)
             g == SingleTextFrameSize(u)
  <2>1. o = [kind |-> "collected", text |-> r, limits |-> l, original |-> g,
             kept |-> f, truncated |-> t, edited |-> FALSE]
    BY <1>6, <1>9
  <2>2. r <= l.text /\ f <= l.framed /\ f \in Nat /\ g \in Nat
    <3>1. ~ (r > l.text) /\ ~ (f > l.framed)
      BY <1>9 DEF OverLimit
    <3>2. l.text \in Nat /\ l.framed \in Nat /\ f \in Nat /\ g \in Nat
      BY <1>7, LimitsType
    <3> HIDE DEF f, g
    <3> QED BY <1>4, <3>1, <3>2
  <2>3. ~t => g = f
    BY <1>5
  <2>4. f = SingleTextFrameSize(r)
    OBVIOUS
  <2> HIDE DEF f, g
  <2> QED BY <1>3, <1>4, <2>1, <2>2, <2>3, <2>4 DEF IsReceipt
<1> QED BY <1>8, <1>9

(***************************************************************************)
(* Blocks.                                                                 *)
(***************************************************************************)
LEMMA BlockFields ==
  ASSUME NEW b \in WellFormed, NEW i \in DOMAIN b
  PROVE  /\ b[i] \in Block /\ b[i].image \in BOOLEAN /\ b[i].runes \in Seq(Nat)
         /\ b[i].size \in Nat /\ SumOf(b[i].runes) \in Nat
         /\ SumOf(b[i].runes) = IF b[i].image THEN 0 ELSE b[i].size
<1>1. b[i] \in Block /\ IsBlock(b[i])
  BY DEF WellFormed
<1>2. b[i].image \in BOOLEAN /\ b[i].runes \in Seq(Nat) /\ b[i].size \in Nat
  BY <1>1 DEF Block
<1>3. SumOf(b[i].runes) \in Nat
  BY <1>2, SumType
<1>4. CASE b[i].image
  <2>1. b[i].runes = <<>>
    BY <1>1, <1>4 DEF IsBlock
  <2> QED BY <1>1, <1>2, <1>3, <1>4, <2>1, SumEmpty
<1>5. CASE ~b[i].image
  BY <1>1, <1>2, <1>3, <1>5 DEF IsBlock
<1> QED BY <1>2, <1>4, <1>5

LEMMA BlockCount ==
  ASSUME NEW b \in WellFormed
  PROVE  b \in Seq(Block) /\ Len(b) \in Nat /\ DOMAIN b = 1..Len(b)
BY DEF WellFormed

LEMMA SeqOfNats ==
  ASSUME NEW n \in Nat, NEW f \in [1..n -> Nat]
  PROVE  f \in Seq(Nat) /\ SumOf(f) \in Nat
<1>1. f \in Seq(Nat)
  OBVIOUS
<1> QED BY <1>1, SumType

LEMMA BlockSizes ==
  ASSUME NEW b \in WellFormed
  PROVE  /\ TextTotal(b) \in Nat /\ TextSize(b) = TextTotal(b)
         /\ BlocksFrameSize(b) \in Nat /\ ImageBytes(b) \in Nat
<1> DEFINE n == Len(b)
           D == DOMAIN b
<1>1. n \in Nat /\ D = 1..n
  BY BlockCount
<1>2. TextTotal(b) \in Nat
  <2> DEFINE f == [i \in D |-> SumOf(b[i].runes)]
  <2>1. \A i \in D : SumOf(b[i].runes) \in Nat
    BY BlockFields
  <2>2. f \in [1..n -> Nat]
    BY <1>1, <2>1
  <2> HIDE DEF f
  <2>3. SumOf(f) \in Nat
    BY <1>1, <2>2, SeqOfNats
  <2> QED BY <2>3, Zenon DEF TextTotal, f
<1>3. TextSize(b) = TextTotal(b)
  <2>1. \A i \in D : SumOf(b[i].runes) = IF b[i].image THEN 0 ELSE b[i].size
    BY BlockFields
  <2>2. [i \in D |-> SumOf(b[i].runes)] = [i \in D |-> IF b[i].image THEN 0 ELSE b[i].size]
    BY <2>1
  <2> QED BY <2>2, Zenon DEF TextTotal, TextSize
<1>4. BlocksFrameSize(b) \in Nat
  <2> DEFINE f == [i \in D |-> FramedBlockSize(b[i].size)]
  <2>1. ASSUME NEW i \in D
        PROVE  FramedBlockSize(b[i].size) \in Nat
    <3> DEFINE s == b[i].size
    <3>1. s \in Nat /\ s <= s
      BY BlockFields
    <3> HIDE DEF s
    <3>2. FramedBlockSize(s) \in Nat
      BY <3>1, FrameMonotone
    <3> QED BY <3>2 DEF s
  <2>2. f \in [1..n -> Nat]
    BY <1>1, <2>1
  <2> HIDE DEF f
  <2>3. SumOf(f) \in Nat
    BY <1>1, <2>2, SeqOfNats
  <2>4. BlocksFrameSize(b) = HeaderFrame + SumOf(f)
    BY Zenon DEF BlocksFrameSize, f
  <2> QED BY <2>3, <2>4, CollectorConstants
<1>5. ImageBytes(b) \in Nat
  <2> DEFINE f == [i \in D |-> IF b[i].image THEN b[i].size ELSE 0]
  <2>1. \A i \in D : (IF b[i].image THEN b[i].size ELSE 0) \in Nat
    BY BlockFields
  <2>2. f \in [1..n -> Nat]
    BY <1>1, <2>1
  <2> HIDE DEF f
  <2>3. SumOf(f) \in Nat
    BY <1>1, <2>2, SeqOfNats
  <2> QED BY <2>3, Zenon DEF ImageBytes, f
<1> QED BY <1>2, <1>3, <1>4, <1>5

\* A list of texts and of the blocks of another is well formed.
LEMMA TextBlock ==
  ASSUME NEW runes \in Seq(Nat)
  PROVE  Text(runes) \in Block /\ IsBlock(Text(runes))
<1>1. SumOf(runes) \in Nat
  BY SumType
<1> QED BY <1>1 DEF Text, Block, IsBlock

LEMMA BlockList ==
  ASSUME NEW b \in WellFormed, NEW d, DOMAIN d = DOMAIN b, d = [i \in DOMAIN b |-> d[i]],
         \A i \in DOMAIN b : d[i] = b[i] \/ \E runes \in Seq(Nat) : d[i] = Text(runes)
  PROVE  d \in WellFormed
<1>1. b \in Seq(Block) /\ Len(b) \in Nat /\ DOMAIN b = 1..Len(b)
  BY BlockCount
<1>2. ASSUME NEW i \in DOMAIN b
      PROVE  d[i] \in Block /\ IsBlock(d[i])
  <2>1. CASE d[i] = b[i]
    BY <2>1 DEF WellFormed
  <2>2. CASE \E runes \in Seq(Nat) : d[i] = Text(runes)
    BY <2>2, TextBlock
  <2> QED BY <2>1, <2>2
<1>3. d \in Seq(Block)
  BY <1>1, <1>2
<1> QED BY <1>2, <1>3 DEF WellFormed

LEMMA RunesType ==
  ASSUME NEW n \in Nat
  PROVE  Runes(n) \in Seq(Nat)
BY DEF Runes

LEMMA DowngradeKept ==
  ASSUME NEW b \in WellFormed, NEW refused
  PROVE  Downgrade(b, refused) \in WellFormed /\ Compact(b, refused) \in WellFormed
<1>1. DowngradeText \in Nat /\ ManifestText \in Nat
  BY OutputConstants
<1>2. Runes(DowngradeText) \in Seq(Nat) /\ Runes(ManifestText) \in Seq(Nat) /\ <<>> \in Seq(Nat)
  BY <1>1, RunesType
<1>3. Downgrade(b, refused) \in WellFormed
  <2> DEFINE d == Downgrade(b, refused)
  <2>1. d = [i \in DOMAIN b |-> IF i \in refused THEN Text(Runes(DowngradeText)) ELSE b[i]]
    BY Zenon DEF Downgrade
  <2> HIDE DEF d
  <2>2. DOMAIN d = DOMAIN b /\ d = [i \in DOMAIN b |-> d[i]]
    BY <2>1
  <2>3. \A i \in DOMAIN b : d[i] = b[i] \/ d[i] = Text(Runes(DowngradeText))
    BY <2>1
  <2>4. \A i \in DOMAIN b : d[i] = b[i] \/ \E runes \in Seq(Nat) : d[i] = Text(runes)
    BY <1>2, <2>3
  <2>5. d \in WellFormed
    BY <2>2, <2>4, BlockList
  <2> QED BY <2>5 DEF d
<1>4. Compact(b, refused) \in WellFormed
  <2> DEFINE d == Compact(b, refused)
             v(i) == Text(IF i = Min(refused) THEN Runes(ManifestText) ELSE <<>>)
  <2>1. d = [i \in DOMAIN b |-> IF i \notin refused THEN b[i] ELSE v(i)]
    BY Zenon DEF Compact
  <2>2. \A i : v(i) = Text(Runes(ManifestText)) \/ v(i) = Text(<<>>)
    OBVIOUS
  <2> HIDE DEF d, v
  <2>3. DOMAIN d = DOMAIN b /\ d = [i \in DOMAIN b |-> d[i]]
    BY <2>1
  <2>4. \A i \in DOMAIN b : d[i] = b[i] \/ d[i] = v(i)
    BY <2>1
  <2>5. \A i \in DOMAIN b : d[i] = b[i] \/ \E runes \in Seq(Nat) : d[i] = Text(runes)
    BY <1>2, <2>2, <2>4
  <2>6. d \in WellFormed
    BY <2>3, <2>5, BlockList
  <2> QED BY <2>6 DEF d
<1> QED BY <1>3, <1>4

\* applyKeep keeps texts and images what they are.
LEMMA RunesBeforeType ==
  ASSUME NEW b \in WellFormed, NEW i \in DOMAIN b, NEW at
  PROVE  RunesBefore(b, i, at) \in 0..Len(b[i].runes)
<1> DEFINE s == b[i].runes
           m == Len(s)
           starts(k) == Ends(b, i - 1) + SumOf(SubSeq(s, 1, k - 1))
           T == {k \in DOMAIN s : starts(k) < at}
<1>1. s \in Seq(Nat)
  BY BlockFields
<1>2. m \in Nat /\ DOMAIN s = 1..m
  <2> HIDE DEF s
  <2> QED BY <1>1
<1>3. T \subseteq 1..m
  BY <1>2
<1>4. RunesBefore(b, i, at) = Cardinality(T)
  BY Zenon DEF RunesBefore
<1> HIDE DEF T, m
<1>5. IsFiniteSet(1..m) /\ Cardinality(1..m) = m
  BY <1>2, FS_Interval
<1>6. IsFiniteSet(T) /\ Cardinality(T) <= Cardinality(1..m)
  BY <1>3, <1>5, FS_Subset
<1>7. Cardinality(T) \in Nat
  BY <1>6, FS_CardinalityType
<1> QED BY <1>2, <1>4, <1>5, <1>6, <1>7 DEF m

LEMMA CutType ==
  ASSUME NEW S, NEW s \in Seq(S), NEW k \in 0..Len(s)
  PROVE  SubSeq(s, 1, k) \in Seq(S) /\ SubSeq(s, k + 1, Len(s)) \in Seq(S)
OBVIOUS

LEMMA ApplyKeepKept ==
  ASSUME NEW b \in WellFormed, NEW keep
  PROVE  ApplyKeep(b, keep) \in WellFormed
<1> DEFINE d == ApplyKeep(b, keep)
           cut == HeadCut(b, keep)
           rest == TailStart(b, keep)
           head(i) == SubSeq(b[i].runes, 1, RunesBefore(b, i, cut))
           tail(i) == SubSeq(b[i].runes, RunesBefore(b, i, rest) + 1, Len(b[i].runes))
           mark(i) == IF i = FirstTextAtOrAfter(b, cut) THEN Marker ELSE <<>>
           v(i) == head(i) \o mark(i) \o tail(i)
<1>1. d = [i \in DOMAIN b |-> IF b[i].image THEN b[i] ELSE Text(v(i))]
  BY Zenon DEF ApplyKeep
<1>2. ASSUME NEW i \in DOMAIN b
      PROVE  v(i) \in Seq(Nat)
  <2> DEFINE s == b[i].runes
             p == RunesBefore(b, i, cut)
             q == RunesBefore(b, i, rest)
             x == head(i)
             y == mark(i)
             z == tail(i)
  <2>1. s \in Seq(Nat) /\ p \in 0..Len(s) /\ q \in 0..Len(s)
    <3> HIDE DEF cut, rest
    <3> QED BY BlockFields, RunesBeforeType
  <2>2. x = SubSeq(s, 1, p) /\ z = SubSeq(s, q + 1, Len(s))
    OBVIOUS
  <2>3. y \in Seq(Nat)
    <3>1. Marker \in Seq(Nat)
      BY CollectorConstants DEF Marker
    <3>2. <<>> \in Seq(Nat)
      OBVIOUS
    <3> HIDE DEF cut
    <3> QED BY <3>1, <3>2
  <2>4. v(i) = (x \o y) \o z
    OBVIOUS
  <2> HIDE DEF s, p, q, x, y, z, v
  <2>5. x \in Seq(Nat) /\ z \in Seq(Nat)
    BY <2>1, <2>2, CutType
  <2>6. x \o y \in Seq(Nat)
    BY <2>3, <2>5, ConcatType
  <2>7. (x \o y) \o z \in Seq(Nat)
    BY <2>5, <2>6, ConcatType
  <2> QED BY <2>4, <2>7
<1> HIDE DEF d, v
<1>3. DOMAIN d = DOMAIN b /\ d = [i \in DOMAIN b |-> d[i]]
  BY <1>1
<1>4. \A i \in DOMAIN b : d[i] = b[i] \/ d[i] = Text(v(i))
  BY <1>1
<1>5. \A i \in DOMAIN b : d[i] = b[i] \/ \E runes \in Seq(Nat) : d[i] = Text(runes)
  BY <1>2, <1>4
<1>6. d \in WellFormed
  BY <1>3, <1>5, BlockList
<1> QED BY <1>6 DEF d

(***************************************************************************)
(* The binary search of truncateBlocks.                                    *)
(***************************************************************************)
SearchStates(n) == [lo : 0..(n + 1), hi : -1..n, best : -1..n]

SearchStep(fits, s, f) ==
  LET mid == (s.lo + s.hi) \div 2
  IN IF s.lo > s.hi THEN s.best
     ELSE IF fits[mid] THEN f[[s EXCEPT !.lo = mid + 1, !.best = mid]]
     ELSE f[[s EXCEPT !.hi = mid - 1]]

SearchFunction(n, fits) ==
  CHOOSE f : f = [s \in SearchStates(n) |-> SearchStep(fits, s, f)]

FitsOf(b, lim) == [keep \in 0..TextTotal(b) |-> ShapeFits(b, keep, lim)]

LEMMA SearchUnfolds ==
  ASSUME NEW b, NEW lim
  PROVE  BestKeep(b, lim)
           = SearchFunction(TextTotal(b), FitsOf(b, lim))[[lo |-> 0, hi |-> TextTotal(b), best |-> -1]]
BY Zenon DEF BestKeep, SearchFunction, SearchStates, SearchStep, FitsOf

SearchMid(s) == (s.lo + s.hi) \div 2
SearchUp(s) == [s EXCEPT !.lo = SearchMid(s) + 1, !.best = SearchMid(s)]
SearchDown(s) == [s EXCEPT !.hi = SearchMid(s) - 1]
SearchRank(n, s) == s.hi - s.lo + n + 2

LEMMA MidBetween ==
  ASSUME NEW a \in Nat, NEW b \in Nat, a <= b
  PROVE  (a + b) \div 2 \in Nat /\ a <= (a + b) \div 2 /\ (a + b) \div 2 <= b
OBVIOUS

LEMMA SearchMoves ==
  ASSUME NEW n \in Nat, NEW s \in SearchStates(n), s.lo <= s.hi
  PROVE  /\ SearchMid(s) \in 0..n
         /\ SearchUp(s) \in SearchStates(n) /\ SearchDown(s) \in SearchStates(n)
         /\ SearchUp(s).best = SearchMid(s) /\ SearchDown(s).best = s.best
         /\ SearchRank(n, SearchUp(s)) < SearchRank(n, s)
         /\ SearchRank(n, SearchDown(s)) < SearchRank(n, s)
<1> DEFINE mid == SearchMid(s)
           up == [s EXCEPT !.lo = mid + 1, !.best = mid]
           down == [s EXCEPT !.hi = mid - 1]
<1>1. s.lo \in 0..(n + 1) /\ s.hi \in -1..n /\ s.best \in -1..n
  BY DEF SearchStates
<1>2. s.lo \in Nat /\ s.hi \in Nat
  BY <1>1
<1>3. mid \in Nat /\ s.lo <= mid /\ mid <= s.hi
  BY <1>2, MidBetween DEF SearchMid
<1>4. SearchUp(s) = up /\ SearchDown(s) = down
  BY DEF SearchUp, SearchDown
<1> HIDE DEF mid
<1>5. mid \in 0..n /\ mid + 1 \in 0..(n + 1) /\ mid \in -1..n /\ mid - 1 \in -1..n
  BY <1>1, <1>3
<1>6. /\ up \in SearchStates(n) /\ down \in SearchStates(n)
      /\ up.lo = mid + 1 /\ up.hi = s.hi /\ up.best = mid
      /\ down.lo = s.lo /\ down.hi = mid - 1 /\ down.best = s.best
  BY <1>5 DEF SearchStates
<1> HIDE DEF up, down
<1>7. SearchRank(n, up) < SearchRank(n, s) /\ SearchRank(n, down) < SearchRank(n, s)
  BY <1>1, <1>3, <1>6 DEF SearchRank
<1> QED BY <1>4, <1>5, <1>6, <1>7 DEF mid

LEMMA SearchRankType ==
  ASSUME NEW n \in Nat
  PROVE  \A s \in SearchStates(n) : SearchRank(n, s) \in Nat /\ SearchRank(n, s) < 2 * n + 3
<1> SUFFICES ASSUME NEW s \in SearchStates(n)
             PROVE  SearchRank(n, s) \in Nat /\ SearchRank(n, s) < 2 * n + 3
  OBVIOUS
<1>1. s.lo \in 0..(n + 1) /\ s.hi \in -1..n
  BY DEF SearchStates
<1> QED BY <1>1 DEF SearchRank

LEMMA SearchStepIs ==
  ASSUME NEW fits, NEW s, NEW f
  PROVE  SearchStep(fits, s, f)
           = IF s.lo > s.hi THEN s.best
             ELSE IF fits[SearchMid(s)] THEN f[SearchUp(s)] ELSE f[SearchDown(s)]
BY Zenon DEF SearchStep, SearchMid, SearchUp, SearchDown

LEMMA SearchExists ==
  ASSUME NEW n \in Nat, NEW fits, NEW F, F = SearchFunction(n, fits)
  PROVE  \A s \in SearchStates(n) :
           F[s] = IF s.lo > s.hi THEN s.best
                  ELSE IF fits[SearchMid(s)] THEN F[SearchUp(s)] ELSE F[SearchDown(s)]
<1> DEFINE D == SearchStates(n)
           X == -1..n
           Body(f) == [s \in D |-> SearchStep(fits, s, f)]
           R == [f \in [D -> X] |-> Body(f)]
           rank == [s \in D |-> SearchRank(n, s)]
<1>1. ASSUME NEW s \in D, s.lo <= s.hi
      PROVE  /\ SearchUp(s) \in D /\ SearchDown(s) \in D
             /\ rank[SearchUp(s)] < rank[s] /\ rank[SearchDown(s)] < rank[s]
  BY <1>1, SearchMoves
<1>2. ASSUME NEW s \in D
      PROVE  s.best \in X /\ (s.lo > s.hi \/ s.lo <= s.hi)
  <2>1. s.lo \in 0..(n + 1) /\ s.hi \in -1..n /\ s.best \in -1..n
    BY DEF SearchStates
  <2> QED BY <2>1
<1>3. R \in [[D -> X] -> [D -> X]]
  <2> SUFFICES ASSUME NEW f \in [D -> X], NEW s \in D
               PROVE  SearchStep(fits, s, f) \in X
    OBVIOUS
  <2>1. s.lo <= s.hi => f[SearchUp(s)] \in X /\ f[SearchDown(s)] \in X
    <3> HIDE DEF D, X
    <3> QED BY <1>1
  <2> HIDE DEF D, X
  <2> QED BY <1>2, <2>1, SearchStepIs
<1>4. rank \in [D -> Nat] /\ \A s \in D : rank[s] < 2 * n + 3
  BY SearchRankType
<1>5. ASSUME NEW f \in [D -> X], NEW h \in [D -> X], NEW s \in D,
             \A y \in D : rank[y] < rank[s] => f[y] = h[y]
      PROVE  R[f][s] = R[h][s]
  <2>1. s.lo <= s.hi => f[SearchUp(s)] = h[SearchUp(s)] /\ f[SearchDown(s)] = h[SearchDown(s)]
    <3> HIDE DEF D, X, rank
    <3> QED BY <1>1, <1>5
  <2>2. R[f][s] = SearchStep(fits, s, f) /\ R[h][s] = SearchStep(fits, s, h)
    <3> HIDE DEF D, X
    <3> QED OBVIOUS
  <2> HIDE DEF D, X, R
  <2> QED BY <1>2, <2>1, <2>2, SearchStepIs
<1>6. Recursion(D, X, R, rank, 2 * n + 3)
  <2>1. 2 * n + 3 \in Nat /\ X # {}
    OBVIOUS
  <2> HIDE DEF R, rank, D, X
  <2> QED BY <1>3, <1>4, <1>5, <2>1 DEF Recursion
<1>7. \E f \in [D -> X] : R[f] = f
  <2> HIDE DEF D, rank, R, X
  <2> QED BY <1>6, RecursionExists
<1>8. \A f \in [D -> X] : R[f] = Body(f)
  OBVIOUS
<1>9. \E f : f = Body(f)
  <2> HIDE DEF R, D, X
  <2> QED BY <1>7, <1>8
<1>10. F = Body(F)
  BY <1>9, Zenon DEF SearchFunction
<1>11. \A s \in D : F[s] = SearchStep(fits, s, F)
  <2> HIDE DEF D
  <2> QED BY <1>10
<1> QED BY <1>11, SearchStepIs

\* The search returns -1, or a keep that was found to fit.
LEMMA SearchFinds ==
  ASSUME NEW n \in Nat, NEW fits, NEW s \in SearchStates(n), s.best = -1,
         NEW k, k = SearchFunction(n, fits)[s]
  PROVE  k = -1 \/ (k \in 0..n /\ fits[k])
<1> DEFINE D == SearchStates(n)
           F == SearchFunction(n, fits)
           Good(x) == x = -1 \/ (x \in 0..n /\ fits[x])
           G == {x \in D : Good(x.best) => Good(F[x])}
           rank == [x \in D |-> SearchRank(n, x)]
<1>1. \A x \in D : F[x] = IF x.lo > x.hi THEN x.best
                          ELSE IF fits[SearchMid(x)] THEN F[SearchUp(x)] ELSE F[SearchDown(x)]
  BY SearchExists
<1> HIDE DEF F
<1>2. rank \in [D -> Nat]
  BY SearchRankType
<1>3. ASSUME NEW x \in D, \A y \in D : rank[y] < rank[x] => y \in G
      PROVE  x \in G
  <2> SUFFICES ASSUME Good(x.best)
               PROVE  Good(F[x])
    OBVIOUS
  <2>1. x.lo > x.hi \/ x.lo <= x.hi
    <3>1. x.lo \in 0..(n + 1) /\ x.hi \in -1..n
      BY DEF SearchStates
    <3> QED BY <3>1
  <2>2. CASE x.lo > x.hi
    <3>1. F[x] = x.best
      BY <1>1, <2>2
    <3> HIDE DEF Good
    <3> QED BY <3>1
  <2>3. CASE ~ (x.lo > x.hi)
    <3>0. x.lo <= x.hi
      BY <2>1, <2>3
    <3> DEFINE mid == SearchMid(x)
               up == SearchUp(x)
               down == SearchDown(x)
    <3>1. /\ mid \in 0..n /\ up \in D /\ down \in D /\ up.best = mid /\ down.best = x.best
          /\ rank[up] < rank[x] /\ rank[down] < rank[x]
      BY <3>0, SearchMoves
    <3>2. F[x] = IF fits[mid] THEN F[up] ELSE F[down]
      BY <1>1, <2>3
    <3> HIDE DEF mid, up, down, D, rank
    <3>3. up \in G /\ down \in G
      BY <1>3, <3>1
    <3>4. CASE fits[mid]
      <4>1. Good(up.best)
        BY <3>1, <3>4
      <4>2. Good(F[up])
        <5> HIDE DEF Good
        <5> QED BY <3>3, <4>1
      <4>3. F[x] = F[up]
        BY <3>2, <3>4
      <4> HIDE DEF Good
      <4> QED BY <4>2, <4>3
    <3>5. CASE ~fits[mid]
      <4>1. Good(F[down])
        <5> HIDE DEF Good
        <5> QED BY <3>1, <3>3
      <4>2. F[x] = F[down]
        BY <3>2, <3>5
      <4> HIDE DEF Good
      <4> QED BY <4>1, <4>2
    <3> QED BY <3>4, <3>5
  <2> QED BY <2>2, <2>3
<1>4. \A x \in D : x \in G
  <2> HIDE DEF D, G, rank
  <2> QED BY <1>2, <1>3, RankInduction
<1>5. s \in G
  BY <1>4
<1> QED BY <1>5 DEF F

LEMMA BestKeepFits ==
  ASSUME NEW b \in WellFormed, NEW lim, NEW k, k = BestKeep(b, lim)
  PROVE  k = -1 \/ (k \in 0..TextTotal(b) /\ ShapeFits(b, k, lim))
<1> DEFINE n == TextTotal(b)
           fits == FitsOf(b, lim)
           s == [lo |-> 0, hi |-> n, best |-> -1]
<1>1. n \in Nat
  BY BlockSizes
<1>2. k = SearchFunction(n, fits)[s]
  BY SearchUnfolds
<1>3. s \in SearchStates(n) /\ s.best = -1
  BY <1>1 DEF SearchStates
<1>4. \A i \in 0..n : fits[i] = ShapeFits(b, i, lim)
  BY DEF FitsOf
<1> HIDE DEF s, fits, n
<1>5. k = -1 \/ (k \in 0..n /\ fits[k])
  BY <1>1, <1>2, <1>3, SearchFinds
<1> QED BY <1>1, <1>4, <1>5 DEF n

(***************************************************************************)
(* finalize.                                                               *)
(***************************************************************************)
Sealed(r, l) ==
  /\ r.kind = "sealed" /\ r.blocks \in WellFormed
  /\ r.kept \in Nat /\ r.kept <= l.framed
  /\ r.text \in Nat /\ r.text <= l.text

LEMMA SealFits ==
  ASSUME NEW b \in WellFormed, NEW of, NEW t, NEW l \in Limits,
         BlocksFrameSize(b) <= l.framed, TextSize(b) <= l.text, NEW r, r = Seal(b, of, t)
  PROVE  Sealed(r, l)
<1>1. BlocksFrameSize(b) \in Nat /\ TextSize(b) \in Nat
  BY BlockSizes
<1>2. r.kind = "sealed" /\ r.blocks = b /\ r.kept = BlocksFrameSize(b) /\ r.text = TextSize(b)
  BY DEF Seal
<1> QED BY <1>1, <1>2 DEF Sealed

LEMMA FinalizeBlocksKept ==
  ASSUME NEW b \in WellFormed, NEW l \in Limits, NEW r, r = FinalizeBlocks(b, l)
  PROVE  r = [kind |-> "error"] \/ r = [kind |-> "limit"] \/ Sealed(r, l)
<1> DEFINE verdict == InspectContent(b, l)
           over == TextTotal(b) > l.text \/ BlocksFrameSize(b) > l.framed
           keep == IF HasText(b) THEN BestKeep(b, l) ELSE -1
<1>1. r = IF verdict # "ok" THEN [kind |-> verdict]
          ELSE IF ~over THEN Seal(b, b, FALSE)
          ELSE IF keep < 0 THEN [kind |-> "limit"]
          ELSE Seal(ApplyKeep(b, keep), b, TRUE)
  BY Zenon DEF FinalizeBlocks
<1>2. verdict \in {"error", "limit", "ok"}
  BY DEF InspectContent
<1>3. /\ TextTotal(b) \in Nat /\ TextSize(b) = TextTotal(b) /\ BlocksFrameSize(b) \in Nat
      /\ l.text \in Nat /\ l.framed \in Nat
  BY BlockSizes, LimitsType
<1>4. keep = -1 \/ (keep \in Nat /\ ShapeFits(b, keep, l))
  <2> DEFINE k == BestKeep(b, l)
  <2>1. k = -1 \/ (k \in Nat /\ ShapeFits(b, k, l))
    <3>1. k = -1 \/ (k \in 0..TextTotal(b) /\ ShapeFits(b, k, l))
      BY BestKeepFits
    <3> HIDE DEF k
    <3> QED BY <1>3, <3>1
  <2>2. CASE HasText(b)
    BY <2>1, <2>2
  <2>3. CASE ~HasText(b)
    BY <2>3
  <2> QED BY <2>2, <2>3
<1> HIDE DEF verdict, keep
<1>5. CASE verdict # "ok"
  BY <1>1, <1>2, <1>5
<1>6. CASE verdict = "ok" /\ ~over
  <2>1. r = Seal(b, b, FALSE)
    BY <1>1, <1>6
  <2>2. BlocksFrameSize(b) <= l.framed /\ TextSize(b) <= l.text
    BY <1>3, <1>6
  <2> DEFINE t == FALSE
  <2>3. r = Seal(b, b, t)
    BY <2>1
  <2> HIDE DEF t
  <2> QED BY <2>2, <2>3, SealFits
<1>7. CASE verdict = "ok" /\ over /\ keep < 0
  BY <1>1, <1>7
<1>8. CASE verdict = "ok" /\ over /\ ~ (keep < 0)
  <2> DEFINE shape == ApplyKeep(b, keep)
             t == TRUE
  <2>1. r = Seal(shape, b, t)
    BY <1>1, <1>8
  <2>2. ShapeFits(b, keep, l)
    BY <1>4, <1>8
  <2>3. BlocksFrameSize(shape) <= l.framed /\ TextSize(shape) <= l.text
    BY <2>2, Zenon DEF ShapeFits
  <2>4. shape \in WellFormed
    BY ApplyKeepKept
  <2> HIDE DEF t, shape
  <2> QED BY <2>1, <2>3, <2>4, SealFits
<1> QED BY <1>5, <1>6, <1>7, <1>8

\* The text of the budget error is within every limit.
LEMMA BudgetFits ==
  ASSUME NEW l \in Limits, NEW r, r = FinalizeBlocks(BudgetBlocks, l)
  PROVE  Sealed(r, l)
<1> DEFINE ones == [i \in 1..BudgetText |-> 1]
           t == Text(ones)
           b == BudgetBlocks
<1>1. BudgetText \in Nat
  BY OutputConstants
<1>2. ones \in Seq(Nat) /\ SumOf(ones) = BudgetText
  <2>1. SumOf(ones) = BudgetText
    BY <1>1, SumOfOnes
  <2>2. ones \in Seq(Nat)
    BY <1>1
  <2> QED BY <2>1, <2>2
<1>3. b = <<t>>
  BY DEF BudgetBlocks
<1> HIDE DEF ones, b
<1>4. t = [image |-> FALSE, runes |-> ones, size |-> BudgetText] /\ t \in Block /\ IsBlock(t)
  BY <1>2, TextBlock DEF Text
<1> HIDE DEF t
<1>5. t.image = FALSE /\ t.runes = ones /\ t.size = BudgetText
  BY <1>4
<1>6. Len(b) = 1 /\ DOMAIN b = {1} /\ b[1] = t /\ b # <<>> /\ b \in Seq(Block)
  BY <1>3, <1>4
<1>7. b \in WellFormed
  BY <1>4, <1>6 DEF WellFormed
<1>8. \A x \in Nat : [i \in {1} |-> x] \in Seq(Nat) /\ SumOf([i \in {1} |-> x]) = x
  <2> SUFFICES ASSUME NEW x \in Nat
               PROVE  [i \in {1} |-> x] \in Seq(Nat) /\ SumOf([i \in {1} |-> x]) = x
    OBVIOUS
  <2> DEFINE e == <<>>
             f == [i \in {1} |-> x]
             a == Append(e, x)
  <2>1. e \in Seq(Nat) /\ Len(e) = 0
    OBVIOUS
  <2>2. SumOf(e) = 0
    BY SumEmpty
  <2>3. f = [i \in 1..1 |-> x]
    OBVIOUS
  <2>4. f \in Seq(Nat) /\ Len(f) = 1 /\ f[1] = x
    <3> DEFINE g == [i \in 1..1 |-> x]
    <3>1. g \in Seq(Nat) /\ Len(g) = 1 /\ g[1] = x
      OBVIOUS
    <3> QED BY <2>3, <3>1
  <2> HIDE DEF e, f
  <2>5. a \in Seq(Nat) /\ Len(a) = Len(e) + 1 /\ a[Len(e) + 1] = x
    BY <2>1
  <2> HIDE DEF a
  <2>6. Len(a) = 1 /\ a[1] = x
    BY <2>1, <2>5
  <2>7. \A i \in 1..Len(a) : a[i] = f[i]
    BY <2>4, <2>6
  <2>8. a = f
    BY <2>4, <2>5, <2>6, <2>7, SeqExtensional
  <2>9. SumOf(a) = SumOf(e) + x
    BY <2>1, SumAppend DEF a
  <2>10. SumOf(f) = x
    BY <2>2, <2>8, <2>9
  <2> QED BY <2>4, <2>10 DEF f
<1>9. TextTotal(b) = BudgetText
  <2>1. TextTotal(b) = SumOf([i \in {1} |-> SumOf(b[i].runes)])
    BY <1>6, Zenon DEF TextTotal
  <2>2. [i \in {1} |-> SumOf(b[i].runes)] = [i \in {1} |-> BudgetText]
    BY <1>2, <1>5, <1>6
  <2> QED BY <1>1, <1>8, <2>1, <2>2
<1>10. BlocksFrameSize(b) = SingleTextFrameSize(BudgetText)
  <2> DEFINE x == FramedBlockSize(BudgetText)
  <2>1. BlocksFrameSize(b) = HeaderFrame + SumOf([i \in {1} |-> FramedBlockSize(b[i].size)])
    BY <1>6, Zenon DEF BlocksFrameSize
  <2>2. [i \in {1} |-> FramedBlockSize(b[i].size)] = [i \in {1} |-> x]
    BY <1>5, <1>6
  <2>3. x \in Nat
    <3>1. BudgetText <= BudgetText
      BY <1>1
    <3> QED BY <1>1, <3>1, FrameMonotone
  <2>4. SingleTextFrameSize(BudgetText) = HeaderFrame + x
    BY DEF SingleTextFrameSize
  <2> HIDE DEF x
  <2> QED BY <1>8, <2>1, <2>2, <2>3, <2>4
<1>11. ImageBytes(b) = 0
  <2>1. ImageBytes(b) = SumOf([i \in {1} |-> IF b[i].image THEN b[i].size ELSE 0])
    BY <1>6, Zenon DEF ImageBytes
  <2>2. [i \in {1} |-> IF b[i].image THEN b[i].size ELSE 0] = [i \in {1} |-> 0]
    BY <1>5, <1>6
  <2> QED BY <1>8, <2>1, <2>2
<1>12. /\ l.text >= MinTextBytes /\ l.framed >= MinFramedBytes /\ l.blocks >= 1 /\ l.image >= 1
       /\ BudgetText <= MinTextBytes /\ SingleTextFrameSize(BudgetText) <= MinFramedBytes
  BY LimitFloors
<1>13. /\ l.text \in Nat /\ l.framed \in Nat /\ l.blocks \in Nat /\ l.image \in Nat
       /\ MinTextBytes \in Nat /\ MinFramedBytes \in Nat
       /\ SingleTextFrameSize(BudgetText) \in Nat
  <2>1. BudgetText <= BudgetText
    BY <1>1
  <2> QED BY <1>1, <2>1, LimitsType, OutputConstants, FrameMonotone
<1>14. InspectContent(b, l) = "ok"
  BY <1>6, <1>11, <1>12, <1>13 DEF InspectContent
<1>15. ~ (TextTotal(b) > l.text \/ BlocksFrameSize(b) > l.framed)
  <2> DEFINE f == SingleTextFrameSize(BudgetText)
  <2>1. f \in Nat /\ f <= MinFramedBytes /\ BlocksFrameSize(b) = f
    BY <1>10, <1>12, <1>13
  <2> HIDE DEF f
  <2> QED BY <1>1, <1>9, <1>12, <1>13, <2>1
<1>16. r = FinalizeBlocks(b, l)
  BY DEF b
<1>17. r = Seal(b, b, FALSE)
  BY <1>14, <1>15, <1>16, Zenon DEF FinalizeBlocks
<1>18. BlocksFrameSize(b) <= l.framed /\ TextSize(b) <= l.text
  <2>1. TextTotal(b) \in Nat /\ BlocksFrameSize(b) \in Nat /\ TextSize(b) = TextTotal(b)
    BY <1>7, BlockSizes
  <2> QED BY <1>13, <1>15, <2>1
<1> DEFINE o == FALSE
<1>19. r = Seal(b, b, o)
  BY <1>17
<1> HIDE DEF o
<1> QED BY <1>7, <1>18, <1>19, SealFits

\* The images of d stand where b has images.
ImagesFrom(d, b) == \A i \in DOMAIN d : d[i].image => i \in DOMAIN b /\ b[i].image

LEMMA ApplyKeepImages ==
  ASSUME NEW b, NEW keep
  PROVE  ImagesFrom(ApplyKeep(b, keep), b)
<1> DEFINE d == ApplyKeep(b, keep)
           cut == HeadCut(b, keep)
           rest == TailStart(b, keep)
           head(i) == SubSeq(b[i].runes, 1, RunesBefore(b, i, cut))
           tail(i) == SubSeq(b[i].runes, RunesBefore(b, i, rest) + 1, Len(b[i].runes))
           mark(i) == IF i = FirstTextAtOrAfter(b, cut) THEN Marker ELSE <<>>
           v(i) == head(i) \o mark(i) \o tail(i)
<1>1. d = [i \in DOMAIN b |-> IF b[i].image THEN b[i] ELSE Text(v(i))]
  BY Zenon DEF ApplyKeep
<1>2. \A i : Text(v(i)).image = FALSE
  BY DEF Text
<1> HIDE DEF d, v
<1>3. ImagesFrom(d, b)
  BY <1>1, <1>2 DEF ImagesFrom
<1> QED BY <1>3 DEF d

\* What is sealed was made from the content given, and only an empty one is an error.
LEMMA FinalizeOrigin ==
  ASSUME NEW b, NEW l, NEW r, r = FinalizeBlocks(b, l)
  PROVE  /\ r.kind = "sealed" => r.of = b /\ ImagesFrom(r.blocks, b)
         /\ r.kind = "error" => b = <<>>
<1> DEFINE verdict == InspectContent(b, l)
           over == TextTotal(b) > l.text \/ BlocksFrameSize(b) > l.framed
           keep == IF HasText(b) THEN BestKeep(b, l) ELSE -1
           shape == ApplyKeep(b, keep)
<1>1. r = IF verdict # "ok" THEN [kind |-> verdict]
          ELSE IF ~over THEN Seal(b, b, FALSE)
          ELSE IF keep < 0 THEN [kind |-> "limit"]
          ELSE Seal(shape, b, TRUE)
  BY Zenon DEF FinalizeBlocks
<1>2. verdict \in {"error", "limit", "ok"} /\ (verdict = "error" => b = <<>>)
  BY DEF InspectContent
<1>3. ImagesFrom(shape, b) /\ ImagesFrom(b, b)
  <2> HIDE DEF keep
  <2> QED BY ApplyKeepImages DEF ImagesFrom
<1>4. \A d, t : Seal(d, b, t).kind = "sealed" /\ Seal(d, b, t).of = b /\ Seal(d, b, t).blocks = d
  BY DEF Seal
<1> HIDE DEF verdict, over, keep, shape
<1>5. CASE verdict # "ok"
  BY <1>1, <1>2, <1>5
<1>6. CASE verdict = "ok" /\ ~over
  <2>1. r = Seal(b, b, FALSE)
    BY <1>1, <1>6
  <2>2. r.kind = "sealed" /\ r.of = b /\ r.blocks = b
    BY <2>1 DEF Seal
  <2>3. ImagesFrom(r.blocks, b)
    BY <1>3, <2>2, Zenon
  <2>4. r.kind # "error"
    BY <2>2
  <2> QED BY <2>2, <2>3, <2>4, Zenon
<1>7. CASE verdict = "ok" /\ over /\ keep < 0
  BY <1>1, <1>7
<1>8. CASE verdict = "ok" /\ over /\ ~ (keep < 0)
  <2>1. r = Seal(shape, b, TRUE)
    BY <1>1, <1>8
  <2>2. r.kind = "sealed" /\ r.of = b /\ r.blocks = shape
    BY <2>1 DEF Seal
  <2>3. ImagesFrom(r.blocks, b)
    BY <1>3, <2>2, Zenon
  <2>4. r.kind # "error"
    BY <2>2
  <2> QED BY <2>2, <2>3, <2>4, Zenon
<1> QED BY <1>5, <1>6, <1>7, <1>8

\* The budget error has no image.
LEMMA BudgetOrigin ==
  ASSUME NEW l \in Limits, NEW r, r = FinalizeBlocks(BudgetBlocks, l)
  PROVE  r.kind = "sealed" /\ r.of = BudgetBlocks /\ \A b : ImagesFrom(r.blocks, b)
<1>1. r.kind = "sealed"
  BY BudgetFits DEF Sealed
<1>2. r.of = BudgetBlocks /\ ImagesFrom(r.blocks, BudgetBlocks)
  BY <1>1, FinalizeOrigin
<1>3. \A i \in DOMAIN BudgetBlocks : BudgetBlocks[i].image = FALSE
  <2> DEFINE t == Text([i \in 1..BudgetText |-> 1])
  <2>1. t.image = FALSE
    BY DEF Text
  <2>2. BudgetBlocks = <<t>>
    BY DEF BudgetBlocks
  <2> HIDE DEF t
  <2> QED BY <2>1, <2>2
<1> QED BY <1>1, <1>2, <1>3 DEF ImagesFrom

(***************************************************************************)
(* The steps keep the invariant.                                           *)
(***************************************************************************)
LEMMA OutputInit == Init => OutputInv
<1> SUFFICES ASSUME Init
             PROVE  OutputInv
  OBVIOUS
<1>1. /\ limits \in Limits
      /\ kind \in {"prefix", "headTail", "group", "blocks", "read"}
      /\ col = NewTextCollector(limits, IF kind = "prefix" THEN "prefix" ELSE "headTail")
      /\ src = NewTextCollectorGroup(limits, Sources).src
      /\ blocks = <<>> /\ out = None /\ result = None
  BY DEF Init
<1> DEFINE mode == IF kind = "prefix" THEN "prefix" ELSE "headTail"
<1>2. mode \in {"prefix", "headTail"} /\ col = NewTextCollector(limits, mode)
      /\ (kind = "prefix" => mode = "prefix") /\ (kind # "prefix" => mode = "headTail")
  BY <1>1
<1> HIDE DEF mode
<1>3. /\ Plain(col) /\ col.mode = mode /\ col.budget = MaxCollectorBody(limits)
      /\ mode = "headTail" => RecordCollector(col)
  BY <1>1, <1>2, NewCollectorKept
<1>4. src \in [Sources -> SourceStates]
  <2>1. src = [n \in Sources |-> [pending |-> <<>>, record |-> 0]]
    BY <1>1 DEF NewTextCollectorGroup
  <2>2. [pending |-> <<>>, record |-> 0] \in SourceStates
    BY DEF SourceStates
  <2> QED BY <2>1, <2>2
<1>5. CollectorInv
  BY <1>1, <1>2, <1>3, <1>4 DEF CollectorInv
<1>6. OutInv
  <2>1. <<>> \in WellFormed
    BY DEF WellFormed
  <2> QED BY <1>1, <2>1 DEF OutInv
<1>7. ResultInv
  BY <1>1 DEF ResultInv
<1> QED BY <1>5, <1>6, <1>7 DEF OutputInv

\* A step that writes to the collector.
LEMMA CollectorStep ==
  ASSUME OutputInv, out = None, UNCHANGED <<limits, kind, blocks, out, result>>, CollectorInv'
  PROVE  OutputInv'
<1>1. OutInv' /\ ResultInv'
  <2>1. result = None
    BY DEF OutputInv, OutInv, None, Collected, IsReceipt
  <2>2. OutInv'
    BY <2>1 DEF OutputInv, OutInv, None
  <2>3. ResultInv'
    BY <2>1 DEF OutputInv, ResultInv, None
  <2> QED BY <2>2, <2>3
<1> QED BY <1>1 DEF OutputInv

LEMMA WriteKeeps ==
  ASSUME OutputInv, Write
  PROVE  OutputInv'
<1>1. PICK n \in WriteSizes : \E p \in [1..n -> RawBytes] : col' = ConsumeRaw(col, p)
  BY DEF Write
<1>2. PICK p \in [1..n -> RawBytes] : col' = ConsumeRaw(col, p)
  BY <1>1
<1>3. n \in Nat
  BY OutputConstants
<1>4. p \in Seq(RawBytes)
  BY <1>3
<1>5. /\ limits \in Limits /\ col.budget = MaxCollectorBody(limits) /\ Plain(col)
      /\ col.mode = kind /\ kind \in {"prefix", "headTail"} /\ src \in [Sources -> SourceStates]
  BY DEF Write, OutputInv, CollectorInv
<1>6. Plain(col') /\ col'.mode = col.mode /\ col'.budget = col.budget
  BY <1>2, <1>4, <1>5, ConsumeRawPlain
<1>7. UNCHANGED <<limits, kind, src, blocks, out, result>> /\ out = None
  BY DEF Write, Writable
<1>8. CollectorInv'
  BY <1>5, <1>6, <1>7 DEF CollectorInv
<1> QED BY <1>7, <1>8, CollectorStep

\* The collector of a group with its sources.
LEMMA GroupStep ==
  ASSUME OutputInv, kind = "group"
  PROVE  [col |-> col, src |-> src] \in Groups(MaxCollectorBody(limits))
<1>1. RecordCollector(col) /\ col.budget = MaxCollectorBody(limits) /\ src \in [Sources -> SourceStates]
  BY DEF OutputInv, CollectorInv
<1>2. col \in Collectors
  BY <1>1 DEF RecordCollector, IsCollector
<1> QED BY <1>1, <1>2 DEF Groups

LEMMA GroupKept ==
  ASSUME OutputInv, kind = "group", NEW g \in Groups(MaxCollectorBody(limits)),
         UNCHANGED <<limits, kind>>, col'.budget = g.col.budget, RecordCollector(col'), src' = g.src
  PROVE  CollectorInv'
BY DEF OutputInv, CollectorInv, Groups

\* The state of a collector says nothing of what it keeps.
LEMMA StatePlain ==
  ASSUME NEW c, Plain(c), NEW s \in {"writing", "prepared", "finished"},
         NEW d, d = [c EXCEPT !.state = s]
  PROVE  Plain(d) /\ d.mode = c.mode /\ d.budget = c.budget
<1>1. IsCollector(c)
  BY DEF Plain
<1>2. /\ IsCollector(d) /\ d.mode = c.mode /\ d.budget = c.budget
      /\ d.stream = c.stream /\ d.window = c.window /\ d.head = c.head
      /\ d.omitted = c.omitted
  BY <1>1, SetState
<1> QED BY <1>2, SameWindow DEF Plain

LEMMA StateRecords ==
  ASSUME NEW c, RecordCollector(c), NEW s \in {"writing", "prepared", "finished"},
         NEW d, d = [c EXCEPT !.state = s]
  PROVE  RecordCollector(d) /\ d.budget = c.budget
<1>1. IsCollector(c)
  BY DEF RecordCollector
<1>2. /\ IsCollector(d) /\ d.mode = c.mode /\ d.budget = c.budget
      /\ d.stream = c.stream /\ d.window = c.window /\ d.head = c.head
      /\ d.omitted = c.omitted
  BY <1>1, SetState
<1> QED BY <1>2, SameWindow DEF RecordCollector

LEMMA WriteSourceKeeps ==
  ASSUME OutputInv, WriteSource
  PROVE  OutputInv'
<1> DEFINE g == [col |-> col, src |-> src]
           o == FALSE
<1>1. PICK name \in Sources, n \in WriteSizes : \E p \in [1..n -> RawBytes] :
        LET h == ConsumeSource(g, name, p, o) IN col' = h.col /\ src' = h.src
  BY DEF WriteSource
<1>2. PICK p \in [1..n -> RawBytes] :
        LET h == ConsumeSource(g, name, p, o) IN col' = h.col /\ src' = h.src
  BY <1>1
<1> DEFINE h == ConsumeSource(g, name, p, o)
<1>3. col' = h.col /\ src' = h.src
  BY <1>2
<1>4. p \in Seq(RawBytes)
  <2>1. n \in Nat
    BY OutputConstants
  <2> QED BY <2>1
<1>5. kind = "group" /\ UNCHANGED <<limits, kind, blocks, out, result>> /\ out = None
  BY DEF WriteSource, Writable
<1>6. h \in Groups(MaxCollectorBody(limits))
  <2>1. g \in Groups(MaxCollectorBody(limits)) /\ o \in BOOLEAN /\ h = ConsumeSource(g, name, p, o)
    BY <1>5, GroupStep
  <2> HIDE DEF g, o, h
  <2> QED BY <1>4, <2>1, ConsumeSourceKept
<1> HIDE DEF h
<1>7. RecordCollector(h.col) /\ h.col.budget = MaxCollectorBody(limits)
  BY <1>6 DEF Groups
<1>8. CollectorInv'
  <2>1. RecordCollector(col') /\ col'.budget = h.col.budget
    BY <1>3, <1>7
  <2> QED BY <1>3, <1>5, <1>6, <2>1, GroupKept
<1> QED BY <1>5, <1>8, CollectorStep

LEMMA PrepareKeeps ==
  ASSUME OutputInv, Prepare
  PROVE  OutputInv'
<1> DEFINE c == FlushPending(col)
           s == "prepared"
<1>1. col' = [c EXCEPT !.state = s]
  BY DEF Prepare, PreparePrefix
<1>2. /\ limits \in Limits /\ col.budget = MaxCollectorBody(limits) /\ Plain(col)
      /\ col.mode = kind /\ kind = "prefix" /\ src \in [Sources -> SourceStates]
  BY DEF Prepare, OutputInv, CollectorInv
<1>3. Plain(c) /\ c.mode = col.mode /\ c.budget = col.budget
  BY <1>2, FlushPendingPlain
<1>4. s \in {"writing", "prepared", "finished"}
  OBVIOUS
<1> HIDE DEF c, s
<1>5. Plain(col') /\ col'.mode = c.mode /\ col'.budget = c.budget
  BY <1>1, <1>3, <1>4, StatePlain
<1>6. UNCHANGED <<limits, kind, src, blocks, out, result>> /\ out = None
  BY DEF Prepare, Writable
<1>7. CollectorInv'
  BY <1>2, <1>3, <1>5, <1>6 DEF CollectorInv
<1> QED BY <1>6, <1>7, CollectorStep

\* Handing over an output.
LEMMA HandStep ==
  ASSUME OutputInv, out = None, kind \in {"prefix", "headTail", "group"},
         UNCHANGED <<limits, kind, blocks, result>>, CollectorInv',
         out' = [kind |-> "budget"] \/ IsReceipt(out', limits)
  PROVE  OutputInv'
<1>1. result = None
  BY DEF OutputInv, OutInv, None, Collected, IsReceipt
<1>2. OutInv'
  <2>1. out' = [kind |-> "budget"] \/ Collected(out)'
    BY DEF Collected, IsReceipt
  <2> QED BY <2>1 DEF OutputInv, OutInv
<1>3. ResultInv'
  BY <1>1 DEF OutputInv, ResultInv, None
<1> QED BY <1>2, <1>3 DEF OutputInv

LEMMA OutputKeeps ==
  ASSUME OutputInv, Output
  PROVE  OutputInv'
<1> DEFINE done == IF kind = "headTail" THEN FlushPending(col) ELSE col
           s == "finished"
<1>1. PICK m \in Metas : col' = [done EXCEPT !.state = s] /\ out' = RenderOutput(done, m, limits)
  BY DEF Output, Hand
<1>2. /\ limits \in Limits /\ col.budget = MaxCollectorBody(limits) /\ Plain(col)
      /\ col.mode = kind /\ kind \in {"prefix", "headTail"} /\ src \in [Sources -> SourceStates]
  BY DEF Output, OutputInv, CollectorInv
<1>3. Plain(done) /\ done.mode = col.mode /\ done.budget = col.budget
  <2> DEFINE c == FlushPending(col)
  <2>1. Plain(c) /\ c.mode = col.mode /\ c.budget = col.budget
    BY <1>2, FlushPendingPlain
  <2>2. CASE kind = "headTail"
    BY <2>1, <2>2
  <2>3. CASE kind # "headTail"
    BY <1>2, <2>3
  <2> QED BY <2>2, <2>3
<1>4. s \in {"writing", "prepared", "finished"} /\ m \in Nat
  BY OutputConstants
<1> HIDE DEF done, s
<1>5. Plain(col') /\ col'.mode = done.mode /\ col'.budget = done.budget
  BY <1>1, <1>3, <1>4, StatePlain
<1>6. UNCHANGED <<limits, kind, src, blocks, result>> /\ out = None
  BY DEF Output, Hand
<1>7. CollectorInv'
  BY <1>2, <1>3, <1>5, <1>6 DEF CollectorInv
<1>8. out' = [kind |-> "budget"] \/ IsReceipt(out', limits)
  <2>1. IsCollector(done)
    BY <1>3 DEF Plain
  <2> QED BY <1>1, <1>2, <1>4, <2>1, RenderOutputKept
<1>9. kind \in {"prefix", "headTail", "group"}
  BY <1>2
<1> QED BY <1>6, <1>7, <1>8, <1>9, HandStep

LEMMA GroupOutputKeeps ==
  ASSUME OutputInv, GroupOutput
  PROVE  OutputInv'
<1> DEFINE g0 == [col |-> col, src |-> src]
           names == SetToSeq(Sources)
           g == FoldLeft(FinishSource, g0, names)
           s == "finished"
           c == g.col
           d == [c EXCEPT !.state = s]
<1>1. PICK m \in Metas : src' = g.src /\ col' = d /\ out' = RenderOutput(c, m, limits)
  BY Zenon DEF GroupOutput, Hand
<1>2. kind = "group" /\ UNCHANGED <<limits, kind, blocks, result>> /\ out = None
  BY DEF GroupOutput, Hand, Writable
<1>3. limits \in Limits
  BY DEF OutputInv, CollectorInv
<1>4. g \in Groups(MaxCollectorBody(limits))
  <2>1. g0 \in Groups(MaxCollectorBody(limits)) /\ names \in Seq(Sources)
    BY <1>2, GroupStep, SourceOrder
  <2> HIDE DEF g0, names
  <2> QED BY <2>1, FinishSourcesKept
<1>5. m \in Nat /\ s \in {"writing", "prepared", "finished"}
  BY OutputConstants
<1> HIDE DEF g, s
<1>6. RecordCollector(c) /\ c.budget = MaxCollectorBody(limits)
  BY <1>4 DEF Groups
<1> HIDE DEF c
<1>7. d = [c EXCEPT !.state = s]
  OBVIOUS
<1> HIDE DEF d
<1>8. RecordCollector(d) /\ d.budget = c.budget
  BY <1>5, <1>6, <1>7, StateRecords
<1>9. CollectorInv'
  <2>1. RecordCollector(col') /\ col'.budget = g.col.budget
    BY <1>1, <1>8 DEF c
  <2> QED BY <1>1, <1>2, <1>4, <2>1, GroupKept
<1>10. out' = [kind |-> "budget"] \/ IsReceipt(out', limits)
  <2>1. IsCollector(c)
    BY <1>6 DEF RecordCollector
  <2> QED BY <1>1, <1>3, <1>5, <2>1, RenderOutputKept
<1>11. kind \in {"prefix", "headTail", "group"}
  BY <1>2
<1> QED BY <1>2, <1>9, <1>10, <1>11, HandStep

LEMMA ReturnBlocksKeeps ==
  ASSUME OutputInv, ReturnBlocks
  PROVE  OutputInv'
<1>1. PICK b \in BlockLists, reused \in BOOLEAN :
        blocks' = b /\ out' = [kind |-> IF reused THEN "sealed" ELSE "blocks"]
  BY DEF ReturnBlocks
<1>2. kind = "blocks" /\ out = None /\ UNCHANGED <<limits, kind, col, src, result>>
  BY DEF ReturnBlocks
<1>3. result = None
  BY <1>2 DEF OutputInv, OutInv, None, Collected, IsReceipt
<1>4. b \in WellFormed
  BY OutputConstants DEF WellFormed
<1>5. out' \in [kind : {"sealed", "blocks"}]
  <2>1. CASE reused
    BY <1>1, <2>1
  <2>2. CASE ~reused
    BY <1>1, <2>2
  <2> QED BY <2>1, <2>2
<1>6. OutInv'
  BY <1>1, <1>2, <1>4, <1>5 DEF OutInv
<1>7. CollectorInv'
  BY <1>2 DEF OutputInv, CollectorInv
<1>8. ResultInv'
  BY <1>2, <1>3 DEF ResultInv, None
<1> QED BY <1>6, <1>7, <1>8 DEF OutputInv

LEMMA EditCollectedKeeps ==
  ASSUME OutputInv, EditCollected
  PROVE  OutputInv'
<1>1. /\ out.kind = "collected" /\ result = None /\ out' = [out EXCEPT !.edited = TRUE]
      /\ UNCHANGED <<limits, kind, col, src, blocks, result>>
  BY DEF EditCollected
<1>2. kind \in {"prefix", "headTail", "group"} /\ Collected(out) /\ blocks \in WellFormed
  BY <1>1 DEF OutputInv, OutInv, None
<1>3. Collected(out)'
  BY <1>1, <1>2 DEF Collected, IsReceipt
<1>4. OutInv'
  BY <1>1, <1>2, <1>3 DEF OutInv
<1>5. CollectorInv'
  BY <1>1 DEF OutputInv, CollectorInv
<1>6. ResultInv'
  BY <1>1 DEF ResultInv, None
<1> QED BY <1>4, <1>5, <1>6 DEF OutputInv

\* A result that the invariant allows.
LEMMA ResultStep ==
  ASSUME OutputInv, UNCHANGED <<limits, kind, col, src, blocks, out>>,
         \/ Sealed(result', limits)
         \/ result' = [kind |-> "error"] /\ (kind = "blocks" \/ (Collected(out) /\ out.edited)),
         out # None
  PROVE  OutputInv'
<1>1. CollectorInv'
  BY DEF OutputInv, CollectorInv
<1>2. OutInv'
  BY DEF OutputInv, OutInv, Collected, IsReceipt
<1>3. ResultInv'
  BY DEF ResultInv, Sealed, Fits, Collected, IsReceipt
<1> QED BY <1>1, <1>2, <1>3 DEF OutputInv

\* A collector's output is an error when it was edited, and sealed as it is when not.
LEMMA CollectedResult ==
  ASSUME OutputInv, FinalizeCall, Collected(out)
  PROVE  /\ out.kind = "collected"
         /\ \/ out.edited /\ result' = [kind |-> "error"]
            \/ /\ ~out.edited
               /\ result' = [kind |-> "sealed", blocks |-> <<>>, of |-> <<>>, kept |-> out.kept,
                             text |-> out.text, original |-> out.original,
                             truncated |-> out.truncated]
<1> DEFINE final == Finalize(out)
           budget == FinalizeBlocks(BudgetBlocks, limits)
           r == FinalizeCollected(out, limits)
<1>1. result' = IF final.kind = "limit" THEN budget ELSE final
  BY Zenon DEF FinalizeCall
<1>2. out.kind = "collected"
  BY DEF Collected, IsReceipt
<1>3. final = r
  BY <1>2 DEF Finalize
<1>4. /\ out.limits = limits /\ out.kept = SingleTextFrameSize(out.text)
      /\ out.kept \in Nat /\ out.kept <= limits.framed
      /\ out.truncated \/ out.original = out.kept
      /\ out.edited \in BOOLEAN
  BY DEF Collected, IsReceipt
<1>5. ~ (out.kept > limits.framed)
  <2>1. limits.framed \in Nat
    BY LimitsType DEF OutputInv, CollectorInv
  <2> QED BY <1>4, <2>1
<1>6. CASE out.edited
  <2>1. r = [kind |-> "error"]
    BY <1>6 DEF FinalizeCollected, VerifyReceipt
  <2> HIDE DEF r, final, budget
  <2>2. result' = [kind |-> "error"]
    BY <1>1, <1>3, <2>1
  <2> QED BY <1>2, <1>6, <2>2
<1>7. CASE ~out.edited
  <2>1. VerifyReceipt(out, limits)
    BY <1>4, <1>7 DEF VerifyReceipt
  <2>2. r = [kind |-> "sealed", blocks |-> <<>>, of |-> <<>>, kept |-> out.kept, text |-> out.text,
             original |-> out.original, truncated |-> out.truncated]
    BY <1>5, <2>1, Zenon DEF FinalizeCollected
  <2> HIDE DEF r, final, budget
  <2>3. result' = r
    BY <1>1, <1>3, <2>2
  <2> QED BY <1>2, <1>7, <2>2, <2>3
<1> QED BY <1>4, <1>6, <1>7

LEMMA FinalizeCallKeeps ==
  ASSUME OutputInv, FinalizeCall
  PROVE  OutputInv'
<1> DEFINE final == Finalize(out)
           budget == FinalizeBlocks(BudgetBlocks, limits)
<1>1. result' = IF final.kind = "limit" THEN budget ELSE final
  BY Zenon DEF FinalizeCall
<1>2. out # None /\ UNCHANGED <<limits, kind, col, src, blocks, out>>
  BY DEF FinalizeCall
<1>3. limits \in Limits /\ blocks \in WellFormed
  BY DEF OutputInv, CollectorInv, OutInv
<1>4. Sealed(budget, limits)
  BY <1>3, BudgetFits
<1>5. \/ kind = "blocks" /\ out \in [kind : {"sealed", "blocks"}]
      \/ out = [kind |-> "budget"]
      \/ Collected(out)
  BY <1>2 DEF OutputInv, OutInv
<1>6. CASE kind = "blocks" /\ out \in [kind : {"sealed", "blocks"}]
  <2> DEFINE r == FinalizeBlocks(blocks, limits)
  <2>1. r = [kind |-> "error"] \/ r = [kind |-> "limit"] \/ Sealed(r, limits)
    BY <1>3, FinalizeBlocksKept
  <2>2. final = [kind |-> "error"] \/ final = r
    <3>1. out.kind \in {"sealed", "blocks"}
      BY <1>6
    <3>2. CASE out.kind = "sealed"
      BY <3>2 DEF Finalize
    <3>3. CASE out.kind = "blocks"
      BY <3>3 DEF Finalize
    <3> QED BY <3>1, <3>2, <3>3
  <2> HIDE DEF r, final, budget
  <2>3. result' = [kind |-> "error"] \/ Sealed(result', limits)
    BY <1>1, <1>4, <2>1, <2>2 DEF Sealed
  <2> QED BY <1>2, <1>6, <2>3, ResultStep
<1>7. CASE out = [kind |-> "budget"]
  <2>1. final = budget
    <3>1. out.kind = "budget"
      BY <1>7
    <3> QED BY <3>1 DEF Finalize
  <2> HIDE DEF final, budget
  <2>2. result' = budget
    BY <1>1, <2>1
  <2> QED BY <1>2, <1>4, <2>2, ResultStep
<1>8. CASE Collected(out)
  <2>1. \/ out.edited /\ result' = [kind |-> "error"]
        \/ result' = [kind |-> "sealed", blocks |-> <<>>, of |-> <<>>, kept |-> out.kept,
                      text |-> out.text, original |-> out.original, truncated |-> out.truncated]
    BY <1>8, CollectedResult
  <2>2. /\ out.text \in Nat /\ out.kept \in Nat
        /\ out.text <= limits.text /\ out.kept <= limits.framed
    BY <1>8 DEF Collected, IsReceipt
  <2>3. CASE out.edited /\ result' = [kind |-> "error"]
    BY <1>2, <1>8, <2>3, ResultStep
  <2>4. CASE result' = [kind |-> "sealed", blocks |-> <<>>, of |-> <<>>, kept |-> out.kept,
                        text |-> out.text, original |-> out.original, truncated |-> out.truncated]
    <3>1. /\ result'.kind = "sealed" /\ result'.blocks = <<>>
          /\ result'.kept = out.kept /\ result'.text = out.text
      BY <2>4
    <3>2. <<>> \in WellFormed
      BY DEF WellFormed
    <3>3. Sealed(result', limits)
      BY <2>2, <3>1, <3>2 DEF Sealed
    <3> QED BY <1>2, <3>3, ResultStep
  <2> QED BY <2>1, <2>3, <2>4
<1> QED BY <1>5, <1>6, <1>7, <1>8

LEMMA AdaptToolOutputKeeps ==
  ASSUME OutputInv, AdaptToolOutput
  PROVE  OutputInv'
<1>1. /\ result.kind = "sealed" /\ kind = "blocks"
      /\ UNCHANGED <<limits, kind, col, src, blocks, out>>
  BY DEF AdaptToolOutput
<1> DEFINE first(refused) == FinalizeBlocks(Downgrade(result.blocks, refused), limits)
           second(refused) == FinalizeBlocks(Compact(result.blocks, refused), limits)
<1>2. PICK refused :
        result' = IF first(refused).kind # "limit" THEN first(refused)
                  ELSE IF second(refused).kind = "sealed" THEN second(refused)
                  ELSE [kind |-> "error"]
  BY Zenon DEF AdaptToolOutput
<1>3. limits \in Limits /\ result.blocks \in WellFormed
  <2>1. result # None /\ result # [kind |-> "error"]
    BY <1>1 DEF None
  <2> QED BY <2>1 DEF OutputInv, CollectorInv, ResultInv
<1>4. out # None
  BY <1>1 DEF OutputInv, OutInv, None, Collected, IsReceipt
<1> DEFINE b == result.blocks
           x == Downgrade(b, refused)
           y == Compact(b, refused)
           f == first(refused)
           s == second(refused)
<1>5. x \in WellFormed /\ y \in WellFormed
  <2> HIDE DEF b
  <2>1. b \in WellFormed
    BY <1>3 DEF b
  <2> QED BY <2>1, DowngradeKept
<1>6. f = FinalizeBlocks(x, limits) /\ s = FinalizeBlocks(y, limits)
  OBVIOUS
<1>7. result' = IF f.kind # "limit" THEN f ELSE IF s.kind = "sealed" THEN s ELSE [kind |-> "error"]
  BY <1>2
<1> HIDE DEF x, y, f, s, first, second, b
<1>8. f = [kind |-> "error"] \/ f = [kind |-> "limit"] \/ Sealed(f, limits)
  BY <1>3, <1>5, <1>6, FinalizeBlocksKept
<1>9. s = [kind |-> "error"] \/ s = [kind |-> "limit"] \/ Sealed(s, limits)
  BY <1>3, <1>5, <1>6, FinalizeBlocksKept
<1>10. result' = [kind |-> "error"] \/ Sealed(result', limits)
  BY <1>7, <1>8, <1>9 DEF Sealed
<1> QED BY <1>1, <1>4, <1>10, ResultStep

LEMMA OutputUnchanged ==
  ASSUME OutputInv, UNCHANGED outputVars
  PROVE  OutputInv'
<1>1. UNCHANGED <<limits, kind, col, src, blocks, out, result>>
  BY DEF outputVars
<1> QED BY <1>1 DEF OutputInv, CollectorInv, OutInv, ResultInv, Collected, IsReceipt, Fits

LEMMA OutputNext ==
  ASSUME OutputInv, [Next]_<<outputVars, readVars>>
  PROVE  OutputInv'
<1>1. CASE Write
  BY <1>1, WriteKeeps
<1>2. CASE WriteSource
  BY <1>2, WriteSourceKeeps
<1>3. CASE Prepare
  BY <1>3, PrepareKeeps
<1>4. CASE Output
  BY <1>4, OutputKeeps
<1>5. CASE GroupOutput
  BY <1>5, GroupOutputKeeps
<1>6. CASE ReturnBlocks
  BY <1>6, ReturnBlocksKeeps
<1>7. CASE EditCollected
  BY <1>7, EditCollectedKeeps
<1>8. CASE FinalizeCall
  BY <1>8, FinalizeCallKeeps
<1>9. CASE AdaptToolOutput
  BY <1>9, AdaptToolOutputKeeps
<1>10. CASE ReadFromLine
  <2>1. UNCHANGED outputVars
    BY <1>10 DEF ReadFromLine
  <2> QED BY <2>1, OutputUnchanged
<1>11. CASE ReadFromCursor
  <2>1. UNCHANGED outputVars
    BY <1>11 DEF ReadFromCursor
  <2> QED BY <2>1, OutputUnchanged
<1>12. CASE EditFile \/ ReadChanged \/ Restart
  <2>1. UNCHANGED outputVars
    BY <1>12 DEF EditFile, ReadChanged, Restart
  <2> QED BY <2>1, OutputUnchanged
<1>13. CASE UNCHANGED <<outputVars, readVars>>
  <2>1. UNCHANGED outputVars
    BY <1>13
  <2> QED BY <2>1, OutputUnchanged
<1> QED BY <1>1, <1>2, <1>3, <1>4, <1>5, <1>6, <1>7, <1>8, <1>9, <1>10, <1>11, <1>12, <1>13 DEF Next

\* Collectors, sources, outputs and results keep the relations of OutputInv
\* through any sequence of writes (collector.go append, appendHeadTail,
\* acceptRecord, consumeSource), outputs, edits and finalisations.
THEOREM OutputInvariant == Spec => []OutputInv
<1>1. Init => OutputInv
  BY OutputInit
<1>2. OutputInv /\ [Next]_<<outputVars, readVars>> => OutputInv'
  BY OutputNext
<1> QED BY <1>1, <1>2, PTL DEF Spec

(***************************************************************************)
(* Where a result comes from, and why a call may have failed.              *)
(***************************************************************************)
Origin == result.of \in {blocks, BudgetBlocks} \/ Adapted

OriginInv ==
  /\ result.kind = "error" => MayFail
  /\ result.kind = "sealed" => /\ ImagesFrom(result.blocks, blocks)
                               /\ out.kind # "collected" => Origin

\* A step before the result.
LEMMA OriginUnsealed ==
  ASSUME result' = None
  PROVE  OriginInv'
BY DEF OriginInv, None

LEMMA OriginInit == Init => OriginInv
BY DEF Init, OriginInv, None

LEMMA OriginUnchanged ==
  ASSUME OriginInv, UNCHANGED outputVars
  PROVE  OriginInv'
<1>1. UNCHANGED <<kind, blocks, out, result>>
  BY DEF outputVars
<1> QED BY <1>1 DEF OriginInv, Origin, Adapted, MayFail, ImagesFrom

\* A result sealed from the tool's content, from the budget error or adapted.
LEMMA OriginSealed ==
  ASSUME UNCHANGED <<kind, blocks, out>>, result'.kind = "sealed",
         ImagesFrom(result'.blocks, blocks), out.kind # "collected" => Origin'
  PROVE  OriginInv'
BY DEF OriginInv, ImagesFrom

LEMMA OriginFailed ==
  ASSUME UNCHANGED <<kind, blocks, out>>, result' = [kind |-> "error"], MayFail
  PROVE  OriginInv'
BY DEF OriginInv, MayFail

LEMMA FinalizeCallOrigin ==
  ASSUME OutputInv, FinalizeCall
  PROVE  OriginInv'
<1> DEFINE final == Finalize(out)
           budget == FinalizeBlocks(BudgetBlocks, limits)
<1>1. result' = IF final.kind = "limit" THEN budget ELSE final
  BY Zenon DEF FinalizeCall
<1>2. out # None /\ UNCHANGED <<kind, blocks, out>>
  BY DEF FinalizeCall
<1>3. limits \in Limits /\ blocks \in WellFormed
  BY DEF OutputInv, CollectorInv, OutInv
<1>4. ASSUME result' = budget
      PROVE  OriginInv'
  <2>1. budget.kind = "sealed" /\ budget.of = BudgetBlocks /\ ImagesFrom(budget.blocks, blocks)
    BY <1>3, BudgetOrigin
  <2> HIDE DEF budget
  <2>2. Origin'
    BY <1>4, <2>1 DEF Origin, BudgetBlocks
  <2> QED BY <1>2, <1>4, <2>1, <2>2, OriginSealed
<1>5. \/ kind = "blocks" /\ out \in [kind : {"sealed", "blocks"}]
      \/ kind # "blocks" /\ (out = [kind |-> "budget"] \/ Collected(out))
  BY <1>2 DEF OutputInv, OutInv
<1>6. CASE kind = "blocks" /\ out \in [kind : {"sealed", "blocks"}]
  <2> DEFINE r == FinalizeBlocks(blocks, limits)
  <2>1. /\ r.kind = "sealed" => r.of = blocks /\ ImagesFrom(r.blocks, blocks)
        /\ r.kind = "error" => blocks = <<>>
    BY FinalizeOrigin
  <2>2. r = [kind |-> "error"] \/ r = [kind |-> "limit"] \/ Sealed(r, limits)
    BY <1>3, FinalizeBlocksKept
  <2>3. out.kind \in {"sealed", "blocks"}
    BY <1>6
  <2>4. CASE out.kind = "sealed"
    <3>1. final = [kind |-> "error"]
      BY <2>4 DEF Finalize
    <3> HIDE DEF final, budget
    <3>2. result' = [kind |-> "error"] /\ MayFail
      BY <1>1, <1>6, <2>4, <3>1 DEF MayFail
    <3> QED BY <1>2, <3>2, OriginFailed
  <2>5. CASE out.kind = "blocks"
    <3>1. final = r
      BY <2>5 DEF Finalize
    <3> HIDE DEF r, final, budget
    <3>2. CASE r = [kind |-> "error"]
      <4>1. result' = [kind |-> "error"] /\ MayFail
        BY <1>1, <1>6, <2>1, <3>1, <3>2 DEF MayFail
      <4> QED BY <1>2, <4>1, OriginFailed
    <3>3. CASE r = [kind |-> "limit"]
      <4>1. result' = budget
        BY <1>1, <3>1, <3>3
      <4> QED BY <1>4, <4>1
    <3>4. CASE Sealed(r, limits)
      <4>1. r.kind = "sealed"
        BY <3>4 DEF Sealed
      <4>2. result' = r
        BY <1>1, <3>1, <4>1
      <4>3. Origin'
        BY <1>2, <2>1, <4>1, <4>2 DEF Origin
      <4> QED BY <1>2, <2>1, <4>1, <4>2, <4>3, OriginSealed
    <3> QED BY <2>2, <3>2, <3>3, <3>4
  <2> QED BY <2>3, <2>4, <2>5
<1>7. CASE kind # "blocks" /\ out = [kind |-> "budget"]
  <2>1. final = budget
    <3>1. out.kind = "budget"
      BY <1>7
    <3> QED BY <3>1 DEF Finalize
  <2> HIDE DEF final, budget
  <2> QED BY <1>1, <1>4, <2>1
<1>8. CASE kind # "blocks" /\ Collected(out)
  <2>1. /\ out.kind = "collected"
        /\ \/ out.edited /\ result' = [kind |-> "error"]
           \/ result' = [kind |-> "sealed", blocks |-> <<>>, of |-> <<>>, kept |-> out.kept,
                         text |-> out.text, original |-> out.original,
                         truncated |-> out.truncated]
    BY <1>8, CollectedResult
  <2>2. CASE out.edited /\ result' = [kind |-> "error"]
    BY <1>2, <1>8, <2>2, OriginFailed DEF MayFail
  <2>3. CASE result' = [kind |-> "sealed", blocks |-> <<>>, of |-> <<>>, kept |-> out.kept,
                        text |-> out.text, original |-> out.original, truncated |-> out.truncated]
    <3>1. result'.kind = "sealed" /\ result'.blocks = <<>>
      BY <2>3
    <3>2. ImagesFrom(result'.blocks, blocks)
      BY <3>1 DEF ImagesFrom
    <3> QED BY <1>2, <2>1, <3>1, <3>2, OriginSealed
  <2> QED BY <2>1, <2>2, <2>3
<1> QED BY <1>5, <1>6, <1>7, <1>8

\* Content in which an image was replaced, and what is sealed of it.
LEMMA AdaptedOrigin ==
  ASSUME OutputInv, OriginInv, kind = "blocks", result.kind = "sealed",
         UNCHANGED <<kind, blocks, out>>,
         NEW j \in DOMAIN result.blocks, result.blocks[j].image,
         NEW x, DOMAIN x = DOMAIN result.blocks, ImagesFrom(x, result.blocks),
         x[j].image = FALSE, result' = FinalizeBlocks(x, limits), result'.kind = "sealed"
  PROVE  OriginInv'
<1>1. result'.of = x /\ ImagesFrom(result'.blocks, x)
  BY FinalizeOrigin
<1>2. ImagesFrom(result.blocks, blocks)
  BY DEF OriginInv
<1>3. ImagesFrom(result'.blocks, blocks)
  BY <1>1, <1>2 DEF ImagesFrom
<1>4. j \in DOMAIN blocks /\ blocks[j].image
  BY <1>2 DEF ImagesFrom
<1>5. Adapted'
  BY <1>1, <1>4 DEF Adapted
<1>6. Origin'
  BY <1>5 DEF Origin
<1> QED BY <1>3, <1>6, OriginSealed

LEMMA AdaptToolOutputOrigin ==
  ASSUME OutputInv, OriginInv, AdaptToolOutput
  PROVE  OriginInv'
<1>1. /\ result.kind = "sealed" /\ kind = "blocks" /\ UNCHANGED <<kind, blocks, out>>
  BY DEF AdaptToolOutput
<1> DEFINE b == result.blocks
           first(refused) == FinalizeBlocks(Downgrade(b, refused), limits)
           second(refused) == FinalizeBlocks(Compact(b, refused), limits)
<1>2. PICK refused \in SUBSET {i \in DOMAIN b : b[i].image} :
        /\ refused # {}
        /\ result' = IF first(refused).kind # "limit" THEN first(refused)
                     ELSE IF second(refused).kind = "sealed" THEN second(refused)
                     ELSE [kind |-> "error"]
  BY Zenon DEF AdaptToolOutput
<1>3. limits \in Limits /\ b \in WellFormed
  <2>1. result # None /\ result # [kind |-> "error"]
    BY <1>1 DEF None
  <2> QED BY <2>1 DEF OutputInv, CollectorInv, ResultInv
<1>4. PICK j \in refused : j \in DOMAIN b /\ b[j].image
  BY <1>2
<1>5. ImagesFrom(b, blocks)
  BY <1>1 DEF OriginInv
<1>6. MayFail
  BY <1>1, <1>4, <1>5 DEF MayFail, ImagesFrom
<1> DEFINE x == Downgrade(b, refused)
           y == Compact(b, refused)
           f == first(refused)
           s == second(refused)
           v(i) == Text(IF i = Min(refused) THEN Runes(ManifestText) ELSE <<>>)
<1>7. \A t : Text(t).image = FALSE
  BY DEF Text
<1>8. DOMAIN x = DOMAIN b /\ ImagesFrom(x, b) /\ x[j].image = FALSE
  <2>1. x = [i \in DOMAIN b |-> IF i \in refused THEN Text(Runes(DowngradeText)) ELSE b[i]]
    BY Zenon DEF Downgrade
  <2> HIDE DEF x, b
  <2> QED BY <1>4, <1>7, <2>1 DEF ImagesFrom
<1>9. DOMAIN y = DOMAIN b /\ ImagesFrom(y, b) /\ y[j].image = FALSE
  <2>1. y = [i \in DOMAIN b |-> IF i \notin refused THEN b[i] ELSE v(i)]
    BY Zenon DEF Compact
  <2>2. \A i : v(i).image = FALSE
    BY <1>7
  <2> HIDE DEF y, b, v
  <2> QED BY <1>4, <2>1, <2>2 DEF ImagesFrom
<1>10. f = FinalizeBlocks(x, limits) /\ s = FinalizeBlocks(y, limits)
  OBVIOUS
<1>11. result' = IF f.kind # "limit" THEN f ELSE IF s.kind = "sealed" THEN s ELSE [kind |-> "error"]
  BY <1>2
<1>12. x \in WellFormed
  <2> HIDE DEF b
  <2> QED BY <1>3, DowngradeKept
<1> HIDE DEF x, y, f, s, first, second
<1>13. f = [kind |-> "error"] \/ f = [kind |-> "limit"] \/ Sealed(f, limits)
  BY <1>3, <1>10, <1>12, FinalizeBlocksKept
<1>14. CASE result' = f /\ f.kind = "sealed"
  <2>1. result' = FinalizeBlocks(x, limits) /\ result'.kind = "sealed"
    BY <1>10, <1>14
  <2> QED BY <1>1, <1>4, <1>8, <2>1, AdaptedOrigin
<1>15. CASE result' = s /\ s.kind = "sealed"
  <2>1. result' = FinalizeBlocks(y, limits) /\ result'.kind = "sealed"
    BY <1>10, <1>15
  <2> QED BY <1>1, <1>4, <1>9, <2>1, AdaptedOrigin
<1>16. CASE result' = [kind |-> "error"]
  BY <1>1, <1>6, <1>16, OriginFailed
<1>17. \/ result' = f /\ f.kind = "sealed"
       \/ result' = s /\ s.kind = "sealed"
       \/ result' = [kind |-> "error"]
  BY <1>11, <1>13 DEF Sealed
<1> QED BY <1>14, <1>15, <1>16, <1>17

LEMMA OriginNext ==
  ASSUME OutputInv, OriginInv, [Next]_<<outputVars, readVars>>
  PROVE  OriginInv'
<1>1. out = None => result = None
  BY DEF OutputInv, OutInv, None, Collected, IsReceipt
<1>2. CASE Write \/ WriteSource \/ Prepare \/ Output \/ GroupOutput \/ ReturnBlocks
  <2>1. out = None /\ result' = result
    BY <1>2 DEF Write, WriteSource, Prepare, Output, GroupOutput, ReturnBlocks, Hand, Writable
  <2> QED BY <1>1, <2>1, OriginUnsealed
<1>3. CASE EditCollected
  <2>1. result' = None
    BY <1>3 DEF EditCollected
  <2> QED BY <2>1, OriginUnsealed
<1>4. CASE FinalizeCall
  BY <1>4, FinalizeCallOrigin
<1>5. CASE AdaptToolOutput
  BY <1>5, AdaptToolOutputOrigin
<1>6. CASE \/ ReadFromLine \/ ReadFromCursor \/ EditFile \/ ReadChanged \/ Restart
           \/ UNCHANGED <<outputVars, readVars>>
  <2>1. UNCHANGED outputVars
    BY <1>6 DEF ReadFromLine, ReadFromCursor, EditFile, ReadChanged, Restart
  <2> QED BY <2>1, OriginUnchanged
<1> QED BY <1>2, <1>3, <1>4, <1>5, <1>6 DEF Next

LEMMA OriginKept == Spec => [](OutputInv /\ OriginInv)
<1>1. Init => OutputInv /\ OriginInv
  BY OutputInit, OriginInit
<1>2. OutputInv /\ OriginInv /\ [Next]_<<outputVars, readVars>> => OutputInv' /\ OriginInv'
  BY OutputNext, OriginNext
<1> QED BY <1>1, <1>2, PTL DEF Spec

LEMMA DeliveredFromInv ==
  ASSUME OutputInv, OriginInv
  PROVE  DeliveredWithinLimits
<1>1. ResultInv
  BY DEF OutputInv
<1>2. CASE result = None
  BY <1>2 DEF DeliveredWithinLimits, None
<1>3. CASE result = [kind |-> "error"]
  BY <1>3 DEF DeliveredWithinLimits, OriginInv
<1>4. CASE result.kind = "sealed" /\ Fits(result)
  BY <1>4 DEF DeliveredWithinLimits, Fits
<1> QED BY <1>1, <1>2, <1>3, <1>4 DEF ResultInv

\* Whatever a tool hands over, what Executor.finalize seals for the model has a
\* framed size and a text size within the limits of the call, no limit outcome is
\* left to the run loop, and a tool that keeps the contract and returns no image
\* never fails, whatever the limits (output.go finalize, truncateBlocks,
\* budgetOutput; batch.go runCall).  A tool that returns an image may: when what
\* replaces a refused image does not fit, adaptToolOutput fails the call.
THEOREM OutputWithinLimits == Spec => []DeliveredWithinLimits
<1>1. OutputInv /\ OriginInv => DeliveredWithinLimits
  BY DeliveredFromInv
<1> QED BY <1>1, OriginKept, PTL

LEMMA NeverDiscardsFromInv ==
  ASSUME OutputInv
  PROVE  CollectorNeverDiscards
<1> SUFFICES ASSUME out.kind = "budget", limits.text >= Reservation + MarkerBytes,
                    limits.framed >= SingleTextFrameSize(Reservation + MarkerBytes),
                    NEW m \in Metas, ~ (m > MaxMetaBytes)
             PROVE  ~OverLimit(RenderedBytes(col, m), limits)
  BY DEF CollectorNeverDiscards
<1>1. kind \in {"prefix", "headTail", "group"}
  BY DEF OutputInv, OutInv, None
<1>2. limits \in Limits /\ col.budget = MaxCollectorBody(limits)
  BY DEF OutputInv, CollectorInv
<1>3. IsCollector(col) /\ WithinBudget(col)
  <2>1. CASE kind = "group"
    <3>1. RecordCollector(col)
      BY <2>1 DEF OutputInv, CollectorInv
    <3> QED BY <3>1, RecordsKept DEF RecordCollector, Kept
  <2>2. CASE kind # "group"
    <3>1. Plain(col)
      BY <1>1, <2>2 DEF OutputInv, CollectorInv
    <3> QED BY <3>1, PlainWithin
  <2> QED BY <2>1, <2>2
<1>4. m \in Nat /\ m <= MaxMetaBytes
  BY OutputConstants, ReservationType
<1>5. Reservation + MarkerBytes <= limits.text
      /\ SingleTextFrameSize(Reservation + MarkerBytes) <= limits.framed
  <2> DEFINE x == Reservation + MarkerBytes
             f == SingleTextFrameSize(x)
  <2>1. x \in Nat /\ x <= x
    BY ReservationType
  <2>2. f \in Nat
    <3> HIDE DEF x
    <3> QED BY <2>1, FrameMonotone
  <2>3. limits.text >= x /\ limits.framed >= f /\ limits.text \in Nat /\ limits.framed \in Nat
    BY <1>2, LimitsType
  <2> HIDE DEF x, f
  <2>4. x <= limits.text /\ f <= limits.framed
    BY <2>1, <2>2, <2>3
  <2> QED BY <2>4 DEF x, f
<1> QED BY <1>2, <1>3, <1>4, <1>5, RenderedFits

\* A collector for limits that leave room for a trailer and a marker gives up
\* what it kept for the budget error only when a metadata is longer than it
\* accepts: what Output renders always fits, because NewTextCollector has
\* reserved the room (collector.go NewTextCollector, Output).
THEOREM CollectorKeepsText == Spec => []CollectorNeverDiscards
<1>1. OutputInv => CollectorNeverDiscards
  BY NeverDiscardsFromInv
<1> QED BY <1>1, OutputInvariant, PTL

LEMMA HeadAndTailFromInv ==
  ASSUME OutputInv
  PROVE  HeadAndTailKept
<1> DEFINE n == Len(col.stream)
<1>1. ASSUME kind \in {"headTail", "group"}
      PROVE  Kept(col)
  <2>1. CASE kind = "group"
    <3>1. RecordCollector(col)
      BY <2>1 DEF OutputInv, CollectorInv
    <3> QED BY <3>1, RecordsKept
  <2>2. CASE kind = "headTail"
    <3>1. Plain(col) /\ col.mode = "headTail"
      BY <2>2 DEF OutputInv, CollectorInv
    <3> QED BY <3>1, PlainKept
  <2> QED BY <1>1, <2>1, <2>2
<1>2. ASSUME kind = "headTail"
      PROVE  EndsOf(col, n)
  <2>1. Plain(col) /\ col.mode = "headTail"
    BY <1>2 DEF OutputInv, CollectorInv
  <2> QED BY <2>1, PlainKept
<1> HIDE DEF n
<1>3. kind \in {"headTail", "group"} =>
        /\ KeptLogicalBytes(col) <= col.budget
        /\ SubSeq(col.window, 1, col.head) = Positions(1, col.head)
        /\ \A i \in 1..(Len(col.window) - 1) : col.window[i] < col.window[i + 1]
        /\ ~col.omitted => Len(col.window) = n
  BY <1>1 DEF Kept, WithinBudget, KeptLogicalBytes, Increasing, n
<1> QED BY <1>2, <1>3, Zenon DEF HeadAndTailKept, n

\* What a HeadTail or group collector keeps is within its budget: the first part
\* of what was written, and positions after it in the order they were written;
\* without an omission it is everything (collector.go appendHeadTail,
\* acceptRecord, partitionRecords).
THEOREM HeadAndTailAlwaysKept == Spec => []HeadAndTailKept
<1>1. OutputInv => HeadAndTailKept
  BY HeadAndTailFromInv
<1> QED BY <1>1, OutputInvariant, PTL

(***************************************************************************)
(* What a truncated text consists of.                                      *)
(***************************************************************************)

\* Parts of a concatenation, by the part's place.
LEMMA HeadOfConcat ==
  ASSUME NEW S, NEW f \in Seq(S), NEW s \in Seq(S), NEW k \in 0..Len(f)
  PROVE  SubSeq(f \o s, 1, k) = SubSeq(f, 1, k)
<1>1. f \o s \in Seq(S) /\ Len(f \o s) = Len(f) + Len(s) /\ Len(f) \in Nat /\ Len(s) \in Nat
  BY ConcatProperties, LenProperties
<1>2. \A i \in 1..k : (f \o s)[i] = f[i] /\ f[i] \in S /\ (f \o s)[i] \in S
  <2>1. \A i \in 1..k : i \in 1..Len(f) /\ i \in 1..(Len(f) + Len(s)) /\ i <= Len(f)
    BY <1>1
  <2> QED BY <1>1, <2>1, ConcatProperties, ElementOfSeq
<1> DEFINE x == SubSeq(f \o s, 1, k)
           y == SubSeq(f, 1, k)
<1>3. k \in Int /\ 1 \in Int /\ k - 1 + 1 = k /\ (1 <= k => k - 1 + 1 = k) /\ (~ (1 <= k) => k = 0)
  BY <1>1
<1>4. x \in Seq(S) /\ Len(x) = k /\ \A i \in 1..k : x[i] = f[i]
  <2>1. \A i \in 1..k : 1 + i - 1 = i
    BY <1>3
  <2>2. /\ x \in Seq(S) /\ Len(x) = (IF 1 <= k THEN k - 1 + 1 ELSE 0)
        /\ \A i \in 1..(k - 1 + 1) : x[i] = (f \o s)[1 + i - 1]
    BY <1>2, <1>3, SubSeqProperties
  <2> HIDE DEF x
  <2> QED BY <1>2, <1>3, <2>1, <2>2
<1>5. y \in Seq(S) /\ Len(y) = k /\ \A i \in 1..k : y[i] = f[i]
  <2>1. \A i \in 1..k : 1 + i - 1 = i
    BY <1>3
  <2>2. /\ y \in Seq(S) /\ Len(y) = (IF 1 <= k THEN k - 1 + 1 ELSE 0)
        /\ \A i \in 1..(k - 1 + 1) : y[i] = f[1 + i - 1]
    BY <1>2, <1>3, SubSeqProperties
  <2> HIDE DEF y
  <2> QED BY <1>2, <1>3, <2>1, <2>2
<1> HIDE DEF x, y
<1>6. x = y
  BY <1>4, <1>5, SeqExtensional
<1> QED BY <1>6 DEF x, y

\* A sequence cut in two.
LEMMA CutInTwo ==
  ASSUME NEW S, NEW s \in Seq(S), NEW k \in 0..Len(s)
  PROVE  /\ SubSeq(s, 1, k) \in Seq(S) /\ SubSeq(s, k + 1, Len(s)) \in Seq(S)
         /\ Len(SubSeq(s, 1, k)) = k
         /\ s = SubSeq(s, 1, k) \o SubSeq(s, k + 1, Len(s))
<1>1. Len(s) \in Nat /\ k \in Nat /\ k <= Len(s)
  BY LenProperties
<1>2. 1 \in 1..(Len(s) + 1) /\ k \in (1 - 1)..Len(s) /\ Len(s) \in k..Len(s)
  BY <1>1
<1>3. SubSeq(s, 1, k) \o SubSeq(s, k + 1, Len(s)) = SubSeq(s, 1, Len(s))
  BY <1>2, ConcatAdjacentSubSeq
<1>4. SubSeq(s, 1, Len(s)) = s
  BY SubSeqFull
<1>5. Len(SubSeq(s, 1, k)) = k
  OBVIOUS
<1> QED BY <1>3, <1>4, <1>5, CutType

\* A prefix and what follows it determine both.
LEMMA CutUnique ==
  ASSUME NEW S, NEW a \in Seq(S), NEW b \in Seq(S), NEW w, w = a \o b
  PROVE  SubSeq(w, 1, Len(a)) = a /\ SubSeq(w, Len(a) + 1, Len(w)) = b
<1>1. Len(a) \in Nat /\ Len(a) \in 0..Len(a)
  BY LenProperties
<1>2. SubSeq(w, 1, Len(a)) = SubSeq(a, 1, Len(a))
  BY <1>1, HeadOfConcat
<1>3. SubSeq(a, 1, Len(a)) = a
  BY SubSeqFull
<1>4. w \in Seq(S) /\ Len(w) = Len(a) + Len(b) /\ Len(b) \in Nat
  BY ConcatProperties, LenProperties
<1>5. Len(a) \in 0..Len(w)
  BY <1>1, <1>4
<1>6. /\ SubSeq(w, Len(a) + 1, Len(w)) \in Seq(S)
      /\ w = SubSeq(w, 1, Len(a)) \o SubSeq(w, Len(a) + 1, Len(w))
  BY <1>4, <1>5, CutInTwo
<1>7. a \o SubSeq(w, Len(a) + 1, Len(w)) = a \o b
  BY <1>2, <1>3, <1>6
<1>8. SubSeq(w, Len(a) + 1, Len(w)) = b
  BY <1>6, <1>7, ConcatSimplifications
<1> QED BY <1>2, <1>3, <1>8

\* What a cut of f \o s is when it falls into f, and when it falls into s.
LEMMA CutInFirst ==
  ASSUME NEW S, NEW f \in Seq(S), NEW s \in Seq(S), NEW w, w = f \o s, NEW k \in 0..Len(f)
  PROVE  /\ SubSeq(w, 1, k) = SubSeq(f, 1, k)
         /\ SubSeq(w, k + 1, Len(w)) = SubSeq(f, k + 1, Len(f)) \o s
<1> DEFINE a == SubSeq(f, 1, k)
           b == SubSeq(f, k + 1, Len(f))
<1>1. a \in Seq(S) /\ b \in Seq(S) /\ Len(a) = k /\ f = a \o b
  BY CutInTwo
<1> HIDE DEF a, b
<1> DEFINE d == b \o s
<1>2. w = a \o d /\ d \in Seq(S)
  <2>1. f \o s = (a \o b) \o s
    BY ONLY <1>1
  <2>2. (a \o b) \o s = a \o (b \o s)
    BY ONLY <1>1, s \in Seq(S), ConcatAssociative
  <2>3. b \o s \in Seq(S)
    BY ONLY <1>1, s \in Seq(S), ConcatProperties
  <2> QED
    BY ONLY <2>1, <2>2, <2>3, w = f \o s DEF d
<1> HIDE DEF d
<1>4. a \in Seq(S) /\ d \in Seq(S) /\ w = a \o d
  BY <1>1, <1>2
<1>3. SubSeq(w, 1, Len(a)) = a /\ SubSeq(w, Len(a) + 1, Len(w)) = d
  BY ONLY <1>4, CutUnique
<1> QED BY <1>1, <1>3 DEF a, b, d

LEMMA CutInSecond ==
  ASSUME NEW S, NEW f \in Seq(S), NEW s \in Seq(S), NEW w, w = f \o s, NEW h \in 0..Len(s)
  PROVE  /\ SubSeq(w, 1, Len(f) + h) = f \o SubSeq(s, 1, h)
         /\ SubSeq(w, Len(f) + h + 1, Len(w)) = SubSeq(s, h + 1, Len(s))
<1> DEFINE a == SubSeq(s, 1, h)
           b == SubSeq(s, h + 1, Len(s))
<1>1. a \in Seq(S) /\ b \in Seq(S) /\ Len(a) = h /\ s = a \o b
  BY CutInTwo
<1> HIDE DEF a, b
<1> DEFINE d == f \o a
<1>2. w = d \o b /\ d \in Seq(S) /\ Len(d) = Len(f) + h
  <2>1. (f \o a) \o b = f \o (a \o b)
    BY <1>1
  <2>2. f \o a \in Seq(S) /\ Len(f \o a) = Len(f) + Len(a)
    BY <1>1, ConcatProperties
  <2> QED BY <1>1, <2>1, <2>2
<1> HIDE DEF d
<1>4. d \in Seq(S) /\ b \in Seq(S) /\ w = d \o b
  BY <1>1, <1>2
<1>3. SubSeq(w, 1, Len(d)) = d /\ SubSeq(w, Len(d) + 1, Len(w)) = b
  BY ONLY <1>4, CutUnique
<1> QED BY <1>2, <1>3 DEF a, b, d

\* w is the first k of f, the mark, and f after its first j.
Marked(w, f, k, j, mark) ==
  /\ k \in 0..Len(f) /\ j \in k..Len(f)
  /\ w = (SubSeq(f, 1, k) \o mark) \o SubSeq(f, j + 1, Len(f))

\* The mark goes into a piece that follows what is kept whole.
LEMMA MarkHere ==
  ASSUME NEW S, NEW f \in Seq(S), NEW s \in Seq(S), NEW mark \in Seq(S),
         NEW h \in 0..Len(s), NEW t \in h..Len(s),
         NEW y, y = (SubSeq(s, 1, h) \o mark) \o SubSeq(s, t + 1, Len(s))
  PROVE  Marked(f \o y, f \o s, Len(f) + h, Len(f) + t, mark)
<1> DEFINE a == SubSeq(s, 1, h)
           c == SubSeq(s, t + 1, Len(s))
           w == f \o s
<1>1. Len(f) \in Nat /\ Len(s) \in Nat /\ t \in 0..Len(s) /\ h \in Nat /\ t \in Nat
  BY LenProperties
<1>2. a \in Seq(S) /\ c \in Seq(S)
  BY <1>1, CutInTwo
<1>3. Len(w) = Len(f) + Len(s)
  BY ConcatProperties
<1>4. SubSeq(w, 1, Len(f) + h) = f \o a /\ SubSeq(w, Len(f) + t + 1, Len(w)) = c
  <2>1. f \in Seq(S) /\ s \in Seq(S) /\ w = f \o s
    BY <1>1
  <2>2. h \in 0..Len(s)
    OBVIOUS
  <2>3. t \in 0..Len(s)
    BY <1>1
  <2> HIDE DEF w
  <2>4. SubSeq(w, 1, Len(f) + h) = f \o SubSeq(s, 1, h)
    BY ONLY <2>1, <2>2, CutInSecond
  <2>5. SubSeq(w, Len(f) + t + 1, Len(w)) = SubSeq(s, t + 1, Len(s))
    BY ONLY <2>1, <2>3, CutInSecond
  <2> QED BY <2>4, <2>5
<1> HIDE DEF a, c, w
<1>5. f \o ((a \o mark) \o c) = ((f \o a) \o mark) \o c
  <2> DEFINE d == a \o mark
  <2>1. d \in Seq(S)
    BY <1>2, ConcatProperties
  <2> HIDE DEF d
  <2>5. f \in Seq(S) /\ d \in Seq(S) /\ c \in Seq(S)
    BY <1>2, <2>1
  <2>4. f \o (d \o c) = (f \o d) \o c
    BY ONLY <2>5
  <2>2. f \o ((a \o mark) \o c) = (f \o (a \o mark)) \o c
    BY <2>4 DEF d
  <2>3. f \o (a \o mark) = (f \o a) \o mark
    BY <1>2
  <2> QED BY <2>2, <2>3
<1>6. f \o y = (SubSeq(w, 1, Len(f) + h) \o mark) \o SubSeq(w, Len(f) + t + 1, Len(w))
  BY <1>4, <1>5 DEF a, c
<1>7. Len(f) + h \in 0..Len(w) /\ Len(f) + t \in (Len(f) + h)..Len(w)
  BY <1>1, <1>3
<1> QED BY <1>6, <1>7 DEF Marked, w

\* A further piece loses its first t; what came before has then lost its tail.
LEMMA MarkBefore ==
  ASSUME NEW S, NEW f \in Seq(S), NEW s \in Seq(S), NEW mark \in Seq(S), NEW g, NEW k, NEW j,
         Marked(g, f, k, j, mark), NEW t \in 0..Len(s), t = 0 \/ j = Len(f),
         NEW y, y = SubSeq(s, t + 1, Len(s))
  PROVE  Marked(g \o y, f \o s, k, IF t = 0 THEN j ELSE Len(f) + t, mark)
<1> DEFINE w == f \o s
           a == SubSeq(f, 1, k)
           b == SubSeq(f, j + 1, Len(f))
<1>1. /\ Len(f) \in Nat /\ Len(s) \in Nat /\ k \in 0..Len(f) /\ j \in 0..Len(f) /\ j \in k..Len(f)
      /\ k \in Nat /\ j \in Nat /\ t \in Nat
  BY LenProperties DEF Marked
<1>2. a \in Seq(S) /\ b \in Seq(S) /\ y \in Seq(S)
  BY <1>1, CutInTwo
<1>3. w \in Seq(S) /\ Len(w) = Len(f) + Len(s)
  BY ConcatProperties
<1>4. SubSeq(w, 1, k) = a /\ SubSeq(w, j + 1, Len(w)) = b \o s
      /\ SubSeq(w, Len(f) + t + 1, Len(w)) = y
  <2>1. w = f \o s
    OBVIOUS
  <2> HIDE DEF w
  <2>4. f \in Seq(S) /\ s \in Seq(S) /\ w = f \o s /\ k \in 0..Len(f) /\ j \in 0..Len(f)
        /\ t \in 0..Len(s)
    BY <1>1, <2>1
  <2>2. SubSeq(w, 1, k) = SubSeq(f, 1, k) /\ SubSeq(w, j + 1, Len(w)) = SubSeq(f, j + 1, Len(f)) \o s
    BY ONLY <2>4, CutInFirst
  <2>3. SubSeq(w, Len(f) + t + 1, Len(w)) = SubSeq(s, t + 1, Len(s))
    BY ONLY <2>4, CutInSecond
  <2> QED BY <2>2, <2>3
<1>5. g = (a \o mark) \o b
  BY DEF Marked
<1> HIDE DEF a, b, w
<1>6. CASE t = 0
  <2>1. y = s
    BY <1>6, SubSeqFull
  <2>2. g \o y = (a \o mark) \o (b \o s)
    <3> DEFINE d == a \o mark
    <3>1. d \in Seq(S) /\ g = d \o b
      BY <1>2, <1>5, ConcatProperties
    <3> HIDE DEF d
    <3>3. d \in Seq(S) /\ b \in Seq(S) /\ s \in Seq(S)
      BY <1>2, <3>1
    <3>2. (d \o b) \o s = d \o (b \o s)
      BY ONLY <3>3
    <3> QED BY <2>1, <3>1, <3>2 DEF d
  <2>3. k \in 0..Len(w) /\ j \in k..Len(w)
    BY <1>1, <1>3
  <2> QED BY <1>4, <1>6, <2>2, <2>3 DEF Marked, w
<1>7. CASE t # 0
  <2>1. j = Len(f) /\ b = <<>>
    <3>1. j = Len(f) /\ Len(f) < j + 1 /\ j + 1 \in Int /\ Len(f) \in Int
      BY <1>1, <1>7
    <3> QED BY <3>1, SubSeqEmpty DEF b
  <2>2. g = a \o mark
    <3>1. a \o mark \in Seq(S)
      BY <1>2, ConcatProperties
    <3> QED BY <1>5, <2>1, <3>1, ConcatEmptySeq
  <2>3. k \in 0..Len(w) /\ Len(f) + t \in k..Len(w)
    BY <1>1, <1>3
  <2>4. g \o y = (SubSeq(w, 1, k) \o mark) \o SubSeq(w, Len(f) + t + 1, Len(w))
    BY <1>4, <2>2
  <2> QED BY <1>7, <2>3, <2>4 DEF Marked, w
<1> QED BY <1>6, <1>7

(***************************************************************************)
(* FlattenSeq, as the last of the concatenations of its first i sequences. *)
(***************************************************************************)
Concats(f, q, n) ==
  /\ f[0] = <<>>
  /\ \A i \in 1..n : f[i] = f[i - 1] \o q[i]

LEMMA FlattenConcats ==
  ASSUME NEW S, NEW n \in Nat, NEW q \in [1..n -> Seq(S)]
  PROVE  \E f \in [0..n -> Seq(S)] : FlattenSeq(q) = f[n] /\ Concats(f, q, n)
<1> DEFINE D == 1..n
           X == Seq(S)
           Body(f) == [i \in D |-> IF i = 1 THEN q[i] ELSE f[i - 1] \o q[i]]
           F == [f \in [D -> X] |-> Body(f)]
           rank == [i \in D |-> i]
           flat == CHOOSE f : f = Body(f)
<1>1. ASSUME NEW f \in [D -> X], NEW i \in D
      PROVE  (IF i = 1 THEN q[i] ELSE f[i - 1] \o q[i]) \in X
  <2>1. q[i] \in X
    OBVIOUS
  <2>2. CASE i # 1
    <3>1. i - 1 \in D
      BY <2>2
    <3>2. f[i - 1] \in X
      BY <3>1
    <3> QED BY <2>1, <2>2, <3>2, ConcatType
  <2> QED BY <2>1, <2>2
<1>2. \E f \in [D -> X] : f = Body(f)
  <2>1. F \in [[D -> X] -> [D -> X]]
    <3>1. \A f \in [D -> X] : Body(f) \in [D -> X]
      BY <1>1
    <3> HIDE DEF X, D, Body
    <3> QED BY <3>1
  <2>2. rank \in [D -> Nat] /\ \A i \in D : rank[i] < n + 1
    OBVIOUS
  <2>3. ASSUME NEW f \in [D -> X], NEW g \in [D -> X], NEW i \in D,
               \A y \in D : rank[y] < rank[i] => f[y] = g[y]
        PROVE  F[f][i] = F[g][i]
    <3>1. i # 1 => i - 1 \in D /\ rank[i - 1] < rank[i]
      OBVIOUS
    <3>2. i # 1 => f[i - 1] = g[i - 1]
      BY <2>3, <3>1
    <3>3. Body(f)[i] = Body(g)[i]
      BY <3>2
    <3>4. F[f] = Body(f) /\ F[g] = Body(g)
      <4> HIDE DEF Body, X, D
      <4> QED OBVIOUS
    <3> QED BY <3>3, <3>4
  <2>4. n + 1 \in Nat
    OBVIOUS
  <2>5. Recursion(D, X, F, rank, n + 1)
    <3>1. X # {}
      <4>1. <<>> \in X
        OBVIOUS
      <4> QED BY <4>1
    <3> HIDE DEF F, rank, D, X
    <3> QED BY <2>1, <2>2, <2>3, <2>4, <3>1 DEF Recursion
  <2>6. \A f \in [D -> X] : F[f] = Body(f)
    <3> HIDE DEF Body, X, D
    <3> QED OBVIOUS
  <2> HIDE DEF F, rank, D, X
  <2>7. \E f \in [D -> X] : F[f] = f
    BY <2>5, RecursionExists
  <2> HIDE DEF Body
  <2> QED BY <2>6, <2>7
<1>3. flat = Body(flat)
  BY <1>2
<1>4. n # 0 => FlattenSeq(q) = flat[n]
  <2>1. Len(q) = n
    OBVIOUS
  <2> QED BY <2>1, Zenon DEF FlattenSeq
<1>5. n = 0 => FlattenSeq(q) = <<>>
  <2> SUFFICES ASSUME n = 0
               PROVE  FlattenSeq(q) = <<>>
    OBVIOUS
  <2>1. Len(q) = 0 /\ q = <<>>
    OBVIOUS
  <2> QED BY <2>1, Zenon DEF FlattenSeq
<1> HIDE DEF flat
<1>6. \A i \in D : flat[i] = IF i = 1 THEN q[i] ELSE flat[i - 1] \o q[i]
  BY <1>3
<1>7. \A k \in Nat : k \in D => flat[k] \in X
  <2> DEFINE G == {k \in Nat : k \in D => flat[k] \in X}
  <2>1. 0 \in G
    OBVIOUS
  <2>2. ASSUME NEW k \in Nat, k \in G
        PROVE  k + 1 \in G
    <3> SUFFICES ASSUME k + 1 \in D
                 PROVE  flat[k + 1] \in X
      OBVIOUS
    <3>1. (k + 1) - 1 = k /\ q[k + 1] \in X
      OBVIOUS
    <3>2. CASE k = 0
      BY <1>6, <3>1, <3>2
    <3>3. CASE k # 0
      <4>1. k \in D /\ flat[k] \in X
        BY <2>2, <3>3
      <4>2. flat[k + 1] = flat[k] \o q[k + 1]
        <5>1. k + 1 \in D /\ k + 1 # 1
          BY <3>3
        <5> HIDE DEF D
        <5> QED BY <1>6, <3>1, <5>1, Zenon
      <4> QED BY <3>1, <4>1, <4>2, ConcatType
    <3> QED BY <3>2, <3>3
  <2> HIDE DEF G
  <2>3. \A k \in Nat : k \in G
    BY <2>1, <2>2, SetInduction
  <2> QED BY <2>3 DEF G
<1> DEFINE f == [i \in 0..n |-> IF i = 0 THEN <<>> ELSE flat[i]]
<1>8. f \in [0..n -> X]
  <2>1. ASSUME NEW i \in 0..n
        PROVE  (IF i = 0 THEN <<>> ELSE flat[i]) \in X
    BY <1>7
  <2> HIDE DEF X
  <2> QED BY <2>1
<1>9. FlattenSeq(q) = f[n]
  BY <1>4, <1>5
<1>10. Concats(f, q, n)
  <2>1. f[0] = <<>>
    OBVIOUS
  <2>2. ASSUME NEW i \in 1..n
        PROVE  f[i] = f[i - 1] \o q[i]
    <3>1. f[i] = flat[i] /\ i - 1 \in 0..n /\ q[i] \in X
      OBVIOUS
    <3>2. CASE i = 1
      <4>1. f[i - 1] = <<>> /\ flat[i] = q[i]
        BY <1>6, <3>2
      <4>2. <<>> \o q[i] = q[i]
        BY <3>1, ConcatEmptySeq
      <4> QED BY <3>1, <4>1, <4>2
    <3>3. CASE i # 1
      <4>1. f[i - 1] = flat[i - 1]
        BY <3>1, <3>3
      <4>2. flat[i] = flat[i - 1] \o q[i]
        BY <1>6, <3>3, Zenon
      <4> HIDE DEF f
      <4> QED BY <3>1, <4>1, <4>2
    <3> QED BY <3>2, <3>3
  <2> HIDE DEF f
  <2> QED BY <2>1, <2>2 DEF Concats
<1> HIDE DEF f
<1> QED BY <1>8, <1>9, <1>10

(***************************************************************************)
(* Pieces of which a head and a tail are kept, with a mark in piece m: what *)
(* is kept of all of them is a head, the mark and a tail of all of them.    *)
(***************************************************************************)
Cuts(m, n, s, h, t) ==
  /\ m \in 1..n
  /\ \A i \in 1..n : h[i] \in 0..Len(s[i]) /\ t[i] \in 0..Len(s[i])
  /\ \A i \in 1..n : i < m => h[i] = Len(s[i]) /\ t[i] = Len(s[i])
  /\ \A i \in 1..n : m < i => h[i] = 0
  /\ h[m] <= t[m]
  /\ \A i, l \in 1..n : i < l /\ t[l] # 0 => t[i] = Len(s[i])

Piece(i, m, s, h, t, mark) ==
  (SubSeq(s[i], 1, h[i]) \o (IF i = m THEN mark ELSE <<>>)) \o SubSeq(s[i], t[i] + 1, Len(s[i]))

Cutting(S, n, s, m, h, t, mark) ==
  n \in Nat /\ s \in [1..n -> Seq(S)] /\ mark \in Seq(S) /\ Cuts(m, n, s, h, t)

Whole(i, m, s, h, t, mark) ==
  /\ i < m => Piece(i, m, s, h, t, mark) = s[i]
  /\ m < i => Piece(i, m, s, h, t, mark) = SubSeq(s[i], t[i] + 1, Len(s[i]))

LEMMA WholePiece ==
  ASSUME NEW S, NEW n, NEW s, NEW m, NEW h, NEW t, NEW mark, Cutting(S, n, s, m, h, t, mark),
         NEW i \in 1..n
  PROVE  Whole(i, m, s, h, t, mark)
<1>0. n \in Nat /\ s \in [1..n -> Seq(S)] /\ mark \in Seq(S) /\ Cuts(m, n, s, h, t)
  BY DEF Cutting
<1> DEFINE u == s[i]
           a == SubSeq(u, 1, h[i])
           c == SubSeq(u, t[i] + 1, Len(u))
<1>1. u \in Seq(S) /\ Len(u) \in Nat /\ m \in Nat /\ i \in Nat
  BY <1>0, LenProperties DEF Cuts
<1>2. h[i] \in 0..Len(u) /\ t[i] \in 0..Len(u)
  BY <1>0 DEF Cuts
<1>3. a \in Seq(S) /\ c \in Seq(S)
  <2> HIDE DEF u
  <2> QED BY <1>1, <1>2, CutType
<1>4. i # m => Piece(i, m, s, h, t, mark) = (a \o <<>>) \o c
  BY DEF Piece
<1>5. i < m => a = u /\ c = <<>>
  <2> SUFFICES ASSUME i < m
               PROVE  a = u /\ c = <<>>
    OBVIOUS
  <2>1. h[i] = Len(u) /\ t[i] = Len(u)
    BY <1>0 DEF Cuts
  <2>2. Len(u) < Len(u) + 1 /\ Len(u) \in Int /\ Len(u) + 1 \in Int
    BY <1>1
  <2> HIDE DEF u
  <2> QED BY <1>1, <2>1, <2>2, SubSeqFull, SubSeqEmpty
<1>6. m < i => a = <<>>
  <2> SUFFICES ASSUME m < i
               PROVE  a = <<>>
    OBVIOUS
  <2>1. h[i] = 0
    BY <1>0 DEF Cuts
  <2> HIDE DEF u
  <2> QED BY <2>1, SubSeqEmpty
<1> HIDE DEF u, a, c
<1>7. a \o <<>> = a
  BY <1>3, ConcatEmptySeq
<1>8. i < m => Piece(i, m, s, h, t, mark) = u
  <2> SUFFICES ASSUME i < m
               PROVE  Piece(i, m, s, h, t, mark) = u
    OBVIOUS
  <2>1. Piece(i, m, s, h, t, mark) = (a \o <<>>) \o c
    BY <1>1, <1>4
  <2>2. u \o <<>> = u
    BY <1>1, ConcatEmptySeq
  <2> QED BY <1>5, <1>7, <2>1, <2>2, Zenon
<1>9. m < i => Piece(i, m, s, h, t, mark) = c
  <2> SUFFICES ASSUME m < i
               PROVE  Piece(i, m, s, h, t, mark) = c
    OBVIOUS
  <2>1. Piece(i, m, s, h, t, mark) = (a \o <<>>) \o c
    BY <1>1, <1>4
  <2>2. <<>> \o c = c
    BY <1>3, ConcatEmptySeq
  <2> QED BY <1>6, <1>7, <2>1, <2>2, Zenon
<1> QED BY <1>8, <1>9, Zenon DEF u, c, Whole

\* The pieces up to i: nothing lost yet, or the mark is in, and if every piece
\* so far ends with its head then so do they all.
KeptSoFar(i, m, s, t, f, g, mark) ==
  /\ i < m => g[i] = f[i]
  /\ m <= i => \E k, j : /\ Marked(g[i], f[i], k, j, mark)
                         /\ (\A l \in 1..i : t[l] = Len(s[l])) => j = Len(f[i])

LEMMA KeptPiece ==
  ASSUME NEW S, NEW n \in Nat, NEW s \in [1..n -> Seq(S)], NEW m, NEW h, NEW t, NEW mark \in Seq(S),
         Cuts(m, n, s, h, t), NEW y, \A i \in 1..n : y[i] = Piece(i, m, s, h, t, mark),
         NEW f \in [0..n -> Seq(S)], Concats(f, s, n), NEW g, Concats(g, y, n),
         NEW i \in Nat, i + 1 <= n, KeptSoFar(i, m, s, t, f, g, mark)
  PROVE  KeptSoFar(i + 1, m, s, t, f, g, mark)
<1> DEFINE u == s[i + 1]
           v == y[i + 1]
           a == f[i]
           b == g[i]
<1>1. /\ i + 1 \in 1..n /\ (i + 1) - 1 = i /\ i \in 0..n /\ m \in Nat /\ m \in 1..n
      /\ u \in Seq(S) /\ a \in Seq(S) /\ Len(a) \in Nat /\ Len(u) \in Nat
  BY LenProperties DEF Cuts
<1>2. f[i + 1] = a \o u /\ g[i + 1] = b \o v
  <2>1. f[i + 1] = f[(i + 1) - 1] \o s[i + 1] /\ g[i + 1] = g[(i + 1) - 1] \o y[i + 1]
    BY <1>1, Zenon DEF Concats
  <2> QED BY <1>1, <2>1
<1>3. Len(f[i + 1]) = Len(a) + Len(u)
  BY <1>1, <1>2, ConcatProperties
<1>4. v = Piece(i + 1, m, s, h, t, mark)
  BY <1>1
<1>5. h[i + 1] \in 0..Len(u) /\ t[i + 1] \in 0..Len(u)
  BY <1>1 DEF Cuts
<1>9. /\ i + 1 < m => Piece(i + 1, m, s, h, t, mark) = u
      /\ m < i + 1 => Piece(i + 1, m, s, h, t, mark) = SubSeq(u, t[i + 1] + 1, Len(u))
  <2> DEFINE l == i + 1
  <2>1. Cutting(S, n, s, m, h, t, mark) /\ l \in 1..n
    BY <1>1 DEF Cutting
  <2> HIDE DEF l
  <2>2. Whole(l, m, s, h, t, mark)
    BY ONLY <2>1, WholePiece, Zenon
  <2> QED BY <2>2, Zenon DEF l, Whole
<1>6. CASE i + 1 < m
  <2>1. v = u
    BY <1>4, <1>6, <1>9
  <2>2. b = a
    BY <1>1, <1>6 DEF KeptSoFar
  <2>3. g[i + 1] = f[i + 1]
    BY <1>2, <2>1, <2>2
  <2> QED BY <1>1, <1>6, <2>3 DEF KeptSoFar
<1>7. CASE i + 1 = m
  <2>1. b = a
    BY <1>1, <1>7 DEF KeptSoFar
  <2>2. v = (SubSeq(u, 1, h[i + 1]) \o mark) \o SubSeq(u, t[i + 1] + 1, Len(u))
    BY <1>4, <1>7 DEF Piece
  <2>3. h[i + 1] <= t[i + 1]
    BY <1>7 DEF Cuts
  <2> DEFINE p == h[i + 1]
             q == t[i + 1]
             k == Len(a) + p
             j == Len(a) + q
  <2>4. p \in 0..Len(u) /\ q \in p..Len(u)
    BY <1>1, <1>5, <2>3
  <2> HIDE DEF u, v, a, b, p, q
  <2>5. v = (SubSeq(u, 1, p) \o mark) \o SubSeq(u, q + 1, Len(u))
    BY <2>2 DEF p, q
  <2>6. a \in Seq(S) /\ u \in Seq(S) /\ mark \in Seq(S)
    BY <1>1
  <2>7. Marked(a \o v, a \o u, k, j, mark)
    BY ONLY <2>4, <2>5, <2>6, MarkHere
  <2>8. Marked(g[i + 1], f[i + 1], k, j, mark)
    BY <1>2, <2>1, <2>7
  <2>9. (\A l \in 1..(i + 1) : t[l] = Len(s[l])) => j = Len(f[i + 1])
    <3> SUFFICES ASSUME \A l \in 1..(i + 1) : t[l] = Len(s[l])
                 PROVE  j = Len(f[i + 1])
      OBVIOUS
    <3>1. q = Len(u)
      BY DEF q, u
    <3> QED BY <1>3, <3>1
  <2> HIDE DEF k, j
  <2>10. ~ (i + 1 < m)
    BY <1>1, <1>7
  <2> QED BY <2>8, <2>9, <2>10 DEF KeptSoFar
<1>8. CASE m < i + 1
  <2>1. v = SubSeq(u, t[i + 1] + 1, Len(u))
    BY <1>4, <1>8, <1>9
  <2>2. m <= i
    BY <1>1, <1>8
  <2>3. PICK k, j : /\ Marked(b, a, k, j, mark)
                    /\ (\A l \in 1..i : t[l] = Len(s[l])) => j = Len(a)
    BY <2>2 DEF KeptSoFar
  <2> DEFINE q == t[i + 1]
             jj == IF q = 0 THEN j ELSE Len(a) + q
  <2>4. q = 0 \/ j = Len(a)
    <3> SUFFICES ASSUME q # 0
                 PROVE  j = Len(a)
      OBVIOUS
    <3>1. ASSUME NEW l \in 1..i
          PROVE  t[l] = Len(s[l])
      <4>1. l \in 1..n /\ l < i + 1
        BY <1>1
      <4> QED BY <1>1, <4>1 DEF Cuts
    <3> QED BY <2>3, <3>1
  <2>5. q \in 0..Len(u) /\ q \in Nat
    BY <1>1, <1>5
  <2> HIDE DEF u, v, a, b, q
  <2>6. v = SubSeq(u, q + 1, Len(u))
    BY <2>1 DEF q
  <2>7. a \in Seq(S) /\ u \in Seq(S) /\ mark \in Seq(S) /\ Marked(b, a, k, j, mark)
    BY <1>1, <2>3
  <2>8. Marked(b \o v, a \o u, k, jj, mark)
    BY ONLY <2>4, <2>5, <2>6, <2>7, MarkBefore
  <2>9. Marked(g[i + 1], f[i + 1], k, jj, mark)
    BY <1>2, <2>8
  <2>10. (\A l \in 1..(i + 1) : t[l] = Len(s[l])) => jj = Len(f[i + 1])
    <3> SUFFICES ASSUME \A l \in 1..(i + 1) : t[l] = Len(s[l])
                 PROVE  jj = Len(f[i + 1])
      OBVIOUS
    <3>1. q = Len(u)
      BY <1>1 DEF q, u
    <3>2. \A l \in 1..i : l \in 1..(i + 1)
      BY <1>1
    <3>3. j = Len(a)
      BY <2>3, <3>2
    <3> QED BY <1>1, <1>3, <2>5, <3>1, <3>3
  <2> HIDE DEF jj
  <2>11. ~ (i + 1 < m)
    BY <1>1, <1>8
  <2> QED BY <2>9, <2>10, <2>11 DEF KeptSoFar
<1> QED BY <1>1, <1>6, <1>7, <1>8

LEMMA KeptPieces ==
  ASSUME NEW S, NEW n \in Nat, NEW s \in [1..n -> Seq(S)], NEW m, NEW h, NEW t, NEW mark \in Seq(S),
         Cuts(m, n, s, h, t), NEW y, \A i \in 1..n : y[i] = Piece(i, m, s, h, t, mark),
         NEW f \in [0..n -> Seq(S)], Concats(f, s, n), NEW g, Concats(g, y, n)
  PROVE  \E k, j : Marked(g[n], f[n], k, j, mark)
<1> DEFINE G == {i \in Nat : i <= n => KeptSoFar(i, m, s, t, f, g, mark)}
<1>1. m \in 1..n
  BY DEF Cuts
<1>2. 0 \in G
  <2>1. g[0] = f[0]
    BY DEF Concats
  <2>2. ~ (m <= 0)
    BY <1>1
  <2>3. KeptSoFar(0, m, s, t, f, g, mark)
    BY <2>1, <2>2 DEF KeptSoFar
  <2> QED BY <2>3
<1>3. ASSUME NEW i \in Nat, i \in G
      PROVE  i + 1 \in G
  <2> SUFFICES ASSUME i + 1 <= n
               PROVE  KeptSoFar(i + 1, m, s, t, f, g, mark)
    OBVIOUS
  <2>1. KeptSoFar(i, m, s, t, f, g, mark)
    BY <1>3
  <2> QED BY <2>1, KeptPiece
<1> HIDE DEF G
<1>4. n \in G
  BY <1>2, <1>3, SetInduction
<1>5. KeptSoFar(n, m, s, t, f, g, mark) /\ m <= n
  BY <1>1, <1>4 DEF G
<1> QED BY <1>5 DEF KeptSoFar

(***************************************************************************)
(* Where the texts of a list of blocks start and end in their stream.       *)
(***************************************************************************)
LEMMA PrefixSums ==
  ASSUME NEW s \in Seq(Nat), NEW k \in 0..Len(s)
  PROVE  SumOf(SubSeq(s, 1, k)) \in Nat /\ SumOf(SubSeq(s, 1, k)) <= SumOf(s)
<1> DEFINE a == SubSeq(s, 1, k)
           c == SubSeq(s, k + 1, Len(s))
<1>1. a \in Seq(Nat) /\ c \in Seq(Nat) /\ s = a \o c
  BY CutInTwo
<1> HIDE DEF a, c
<1>2. SumOf(a \o c) = SumOf(a) + SumOf(c) /\ SumOf(a) \in Nat /\ SumOf(c) \in Nat
  BY <1>1, SumConcat, SumType
<1>3. SumOf(a) \in Nat /\ SumOf(a) <= SumOf(s)
  BY <1>1, <1>2
<1> QED BY <1>3 DEF a

LEMMA PrefixSumStep ==
  ASSUME NEW s \in Seq(Nat), NEW i \in 1..Len(s)
  PROVE  SumOf(SubSeq(s, 1, i)) = SumOf(SubSeq(s, 1, i - 1)) + s[i]
<1> DEFINE a == SubSeq(s, 1, i - 1)
           c == SubSeq(s, 1, i)
           x == s[i]
<1>1. a \in Seq(Nat) /\ c \in Seq(Nat) /\ Len(a) = i - 1 /\ Len(c) = i /\ x \in Nat
      /\ (\A j \in 1..(i - 1) : a[j] = s[j]) /\ (\A j \in 1..i : c[j] = s[j])
  OBVIOUS
<1> HIDE DEF a, c
<1>2. c = Append(a, x)
  <2> DEFINE d == Append(a, x)
  <2>1. d \in Seq(Nat) /\ Len(d) = Len(a) + 1 /\ d[Len(a) + 1] = x
        /\ \A j \in 1..Len(a) : d[j] = a[j]
    <3> HIDE DEF x
    <3> QED BY <1>1
  <2> HIDE DEF d
  <2>2. Len(c) = Len(d)
    BY <1>1, <2>1
  <2>3. ASSUME NEW j \in 1..Len(c)
        PROVE  c[j] = d[j]
    <3>1. CASE j \in 1..(i - 1)
      BY <1>1, <2>1, <3>1
    <3>2. CASE j = i
      BY <1>1, <2>1, <3>2
    <3> QED BY <1>1, <3>1, <3>2
  <2>4. c = d
    BY <1>1, <2>1, <2>2, <2>3, SeqExtensional
  <2> QED BY <2>4 DEF d
<1> HIDE DEF x
<1>3. SumOf(Append(a, x)) = SumOf(a) + x
  BY <1>1, SumAppend
<1>4. SumOf(c) = SumOf(a) + x
  BY <1>2, <1>3
<1> QED BY <1>4 DEF a, c, x

RunesOf(b) == [i \in DOMAIN b |-> b[i].runes]
TextSums(b) == [i \in DOMAIN b |-> SumOf(b[i].runes)]

LEMMA TextSumsType ==
  ASSUME NEW b \in WellFormed
  PROVE  /\ TextSums(b) \in Seq(Nat) /\ Len(TextSums(b)) = Len(b)
         /\ RunesOf(b) \in [1..Len(b) -> Seq(Nat)]
<1> DEFINE n == Len(b)
<1>1. n \in Nat /\ DOMAIN b = 1..n
  BY BlockCount
<1>2. \A i \in 1..n : b[i].runes \in Seq(Nat) /\ SumOf(b[i].runes) \in Nat
  BY <1>1, BlockFields
<1> HIDE DEF n
<1>3. TextSums(b) \in [1..n -> Nat]
  BY <1>1, <1>2 DEF TextSums
<1>4. RunesOf(b) \in [1..n -> Seq(Nat)]
  BY <1>1, <1>2 DEF RunesOf
<1>5. TextSums(b) \in Seq(Nat) /\ Len(TextSums(b)) = n
  <2> DEFINE f == TextSums(b)
  <2>1. f \in [1..n -> Nat]
    BY <1>3
  <2> HIDE DEF f
  <2>2. f \in Seq(Nat) /\ Len(f) = n
    BY <1>1, <2>1
  <2> QED BY <2>2 DEF f
<1> QED BY <1>4, <1>5 DEF n

LEMMA EndsAreSums ==
  ASSUME NEW b \in WellFormed, NEW i \in 0..Len(b)
  PROVE  Ends(b, i) = SumOf(SubSeq(TextSums(b), 1, i))
<1> DEFINE T == TextSums(b)
           p == SubSeq(b, 1, i)
           f == [k \in DOMAIN p |-> SumOf(p[k].runes)]
           g == SubSeq(T, 1, i)
<1>1. b \in Seq(Block) /\ Len(b) \in Nat /\ DOMAIN b = 1..Len(b)
  BY BlockCount
<1>2. p \in Seq(Block) /\ DOMAIN p = 1..i /\ \A k \in 1..i : p[k] = b[k]
  BY <1>1
<1>3. T \in Seq(Nat) /\ Len(T) = Len(b)
  BY TextSumsType
<1>4. \A k \in 1..Len(b) : T[k] = SumOf(b[k].runes)
  BY <1>1 DEF TextSums
<1> HIDE DEF T, p
<1>5. g = [k \in 1..i |-> T[k]]
  BY <1>1, <1>3
<1>6. f = [k \in 1..i |-> SumOf(b[k].runes)]
  BY <1>2, Zenon
<1>7. f = g
  <2>1. \A k \in 1..i : T[k] = SumOf(b[k].runes)
    BY <1>1, <1>4
  <2> QED BY <1>5, <1>6, <2>1, Zenon
<1>8. Ends(b, i) = SumOf(f)
  BY Zenon DEF Ends, TextTotal, p
<1> QED BY <1>7, <1>8 DEF T

\* Block i's text ends as many bytes later as it is long.
LEMMA EndsStep ==
  ASSUME NEW b \in WellFormed
  PROVE  /\ Ends(b, 0) = 0 /\ Ends(b, Len(b)) = TextTotal(b)
         /\ \A i \in 0..Len(b) : Ends(b, i) \in Nat
         /\ \A i \in 1..Len(b) : Ends(b, i) = Ends(b, i - 1) + SumOf(b[i].runes)
<1> DEFINE T == TextSums(b)
           n == Len(b)
<1>1. T \in Seq(Nat) /\ Len(T) = n
  BY TextSumsType
<1>2. n \in Nat /\ DOMAIN b = 1..n /\ b \in Seq(Block)
  BY BlockCount
<1>3. \A k \in 1..n : T[k] = SumOf(b[k].runes)
  BY <1>2 DEF TextSums
<1>4. \A i \in 0..n : Ends(b, i) = SumOf(SubSeq(T, 1, i))
  BY EndsAreSums
<1>5. Ends(b, n) = TextTotal(b)
  <2>1. SubSeq(b, 1, Len(b)) = b
    BY <1>2, SubSeqFull
  <2> QED BY <2>1, Zenon DEF Ends
<1> HIDE DEF T, n
<1>6. Ends(b, 0) = 0
  <2>1. SubSeq(T, 1, 0) = <<>>
    BY <1>1
  <2>2. 0 \in 0..n
    BY <1>2
  <2> QED BY <1>4, <2>1, <2>2, SumEmpty, Zenon
<1>7. ASSUME NEW i \in 0..n
      PROVE  Ends(b, i) \in Nat
  <2>1. SumOf(SubSeq(T, 1, i)) \in Nat
    BY <1>1, PrefixSums
  <2> QED BY <1>4, <2>1
<1>8. ASSUME NEW i \in 1..n
      PROVE  Ends(b, i) = Ends(b, i - 1) + SumOf(b[i].runes)
  <2>1. SumOf(SubSeq(T, 1, i)) = SumOf(SubSeq(T, 1, i - 1)) + T[i]
    BY <1>1, PrefixSumStep
  <2>2. i \in 0..n /\ i - 1 \in 0..n
    BY <1>2
  <2>3. Ends(b, i) = SumOf(SubSeq(T, 1, i)) /\ Ends(b, i - 1) = SumOf(SubSeq(T, 1, i - 1))
    BY <1>4, <2>2
  <2> QED BY <1>3, <2>1, <2>3
<1> QED BY <1>5, <1>6, <1>7, <1>8 DEF n

LEMMA EndsMonotone ==
  ASSUME NEW b \in WellFormed, NEW l \in 0..Len(b), NEW i \in 0..l
  PROVE  Ends(b, i) <= Ends(b, l)
<1> DEFINE G == {k \in Nat : i + k <= Len(b) => Ends(b, i) <= Ends(b, i + k)}
<1>1. Len(b) \in Nat /\ \A k \in 1..Len(b) : b[k].runes \in Seq(Nat) /\ SumOf(b[k].runes) \in Nat
  BY BlockCount, BlockFields
<1>2. i \in Nat /\ l \in Nat
  BY <1>1
<1>3. 0 \in G
  <2>1. Ends(b, i) \in Nat
    BY <1>1, EndsStep
  <2>2. i + 0 = i
    BY <1>2
  <2>3. Ends(b, i) <= Ends(b, i + 0)
    BY <2>1, <2>2
  <2> QED BY <2>3
<1>4. ASSUME NEW k \in Nat, k \in G
      PROVE  k + 1 \in G
  <2> SUFFICES ASSUME i + (k + 1) <= Len(b)
               PROVE  Ends(b, i) <= Ends(b, i + (k + 1))
    OBVIOUS
  <2> DEFINE x == i + (k + 1)
  <2>1. x \in 1..Len(b) /\ x - 1 = i + k /\ i + k <= Len(b) /\ i \in 0..Len(b) /\ i + k \in 0..Len(b)
    BY <1>1, <1>2
  <2>2. Ends(b, i) <= Ends(b, i + k)
    BY <1>4, <2>1
  <2> HIDE DEF x
  <2>3. Ends(b, x) = Ends(b, x - 1) + SumOf(b[x].runes) /\ SumOf(b[x].runes) \in Nat
    BY <1>1, <2>1, EndsStep
  <2>4. Ends(b, i) \in Nat /\ Ends(b, i + k) \in Nat
    BY <2>1, EndsStep
  <2>5. Ends(b, x) = Ends(b, i + k) + SumOf(b[x].runes)
    BY <2>1, <2>3
  <2>6. Ends(b, i) <= Ends(b, x)
    BY <2>2, <2>3, <2>4, <2>5
  <2> QED BY <2>6 DEF x
<1> HIDE DEF G
<1>5. \A k \in Nat : k \in G
  BY <1>3, <1>4, SetInduction
<1>6. l - i \in Nat /\ i + (l - i) = l /\ l <= Len(b)
  BY <1>1, <1>2
<1>7. l - i \in G
  BY <1>5, <1>6
<1> QED BY <1>6, <1>7 DEF G

(***************************************************************************)
(* How many runes of a block's text start before a place in the stream.     *)
(***************************************************************************)
StartOf(b, i, k) == Ends(b, i - 1) + SumOf(SubSeq(b[i].runes, 1, k - 1))

LEMMA StartsBetween ==
  ASSUME NEW b \in WellFormed, NEW i \in 1..Len(b), NEW k \in 1..Len(b[i].runes)
  PROVE  /\ Ends(b, i - 1) \in Nat /\ Ends(b, i) \in Nat /\ StartOf(b, i, k) \in Nat
         /\ Ends(b, i - 1) <= StartOf(b, i, k) /\ StartOf(b, i, k) <= Ends(b, i)
<1> DEFINE s == b[i].runes
           x == SumOf(SubSeq(s, 1, k - 1))
<1>1. Len(b) \in Nat /\ s \in Seq(Nat)
  BY BlockCount, BlockFields
<1>2. i \in 0..Len(b) /\ i - 1 \in 0..Len(b)
  BY <1>1
<1>3. /\ Ends(b, i) = Ends(b, i - 1) + SumOf(s)
      /\ Ends(b, i) \in Nat /\ Ends(b, i - 1) \in Nat
  BY <1>2, EndsStep
<1>4. k \in 1..Len(s)
  OBVIOUS
<1> HIDE DEF s
<1>5. k - 1 \in 0..Len(s)
  BY <1>1, <1>4
<1>6. x \in Nat /\ x <= SumOf(s) /\ SumOf(s) \in Nat
  BY <1>1, <1>5, PrefixSums, SumType
<1>7. StartOf(b, i, k) = Ends(b, i - 1) + x
  BY DEF StartOf, s
<1> HIDE DEF x
<1> QED BY <1>3, <1>6, <1>7

StartingBefore(b, i, at) == {k \in DOMAIN b[i].runes : StartOf(b, i, k) < at}

LEMMA RunesStarting ==
  ASSUME NEW b \in WellFormed, NEW i \in 1..Len(b), NEW at
  PROVE  /\ RunesBefore(b, i, at) = Cardinality(StartingBefore(b, i, at))
         /\ StartingBefore(b, i, at) \subseteq 1..Len(b[i].runes)
         /\ IsFiniteSet(StartingBefore(b, i, at))
         /\ Len(b[i].runes) \in Nat /\ IsFiniteSet(1..Len(b[i].runes))
         /\ Cardinality(1..Len(b[i].runes)) = Len(b[i].runes)
         /\ RunesBefore(b, i, at) \in 0..Len(b[i].runes)
<1> DEFINE s == b[i].runes
           T == StartingBefore(b, i, at)
<1>1. DOMAIN b = 1..Len(b) /\ s \in Seq(Nat)
  BY BlockCount, BlockFields
<1>2. RunesBefore(b, i, at) = Cardinality(T)
  BY Zenon DEF RunesBefore, StartingBefore, StartOf
<1>3. RunesBefore(b, i, at) \in 0..Len(s)
  BY <1>1, RunesBeforeType
<1>4. T \subseteq DOMAIN s
  BY DEF StartingBefore
<1> HIDE DEF s, T
<1>5. DOMAIN s = 1..Len(s) /\ Len(s) \in Nat
  BY <1>1
<1>6. IsFiniteSet(1..Len(s)) /\ Cardinality(1..Len(s)) = Len(s)
  <2> DEFINE m == Len(s)
  <2>1. m \in Nat
    BY <1>5
  <2> HIDE DEF m
  <2>2. IsFiniteSet(1..m) /\ Cardinality(1..m) = m
    BY <2>1, FS_Interval
  <2> QED BY <2>2 DEF m
<1>7. T \subseteq 1..Len(s) /\ IsFiniteSet(T)
  BY <1>4, <1>5, <1>6, FS_Subset
<1> QED BY <1>2, <1>3, <1>5, <1>6, <1>7 DEF s, T

\* All of a text that ends before, none of one that starts after.
LEMMA RunesAll ==
  ASSUME NEW b \in WellFormed, NEW i \in 1..Len(b), NEW at \in Nat, Ends(b, i) < at
  PROVE  RunesBefore(b, i, at) = Len(b[i].runes)
<1>1. ASSUME NEW k \in 1..Len(b[i].runes)
      PROVE  k \in StartingBefore(b, i, at)
  <2>1. /\ StartOf(b, i, k) \in Nat /\ Ends(b, i) \in Nat
        /\ StartOf(b, i, k) <= Ends(b, i)
    BY StartsBetween
  <2>2. StartOf(b, i, k) < at
    BY <2>1
  <2>3. k \in DOMAIN b[i].runes
    <3>1. b[i].runes \in Seq(Nat)
      BY BlockCount, BlockFields
    <3> QED BY <3>1
  <2> QED BY <2>2, <2>3 DEF StartingBefore
<1>2. StartingBefore(b, i, at) = 1..Len(b[i].runes)
  BY <1>1, RunesStarting
<1> QED BY <1>2, RunesStarting

LEMMA RunesNone ==
  ASSUME NEW b \in WellFormed, NEW i \in 1..Len(b), NEW at \in Nat, at <= Ends(b, i - 1)
  PROVE  RunesBefore(b, i, at) = 0
<1>1. ASSUME NEW k \in StartingBefore(b, i, at)
      PROVE  FALSE
  <2>1. k \in 1..Len(b[i].runes)
    BY RunesStarting
  <2>2. /\ StartOf(b, i, k) \in Nat /\ Ends(b, i - 1) \in Nat
        /\ Ends(b, i - 1) <= StartOf(b, i, k)
    BY <2>1, StartsBetween
  <2>3. StartOf(b, i, k) < at
    BY DEF StartingBefore
  <2> QED BY <2>2, <2>3
<1>2. StartingBefore(b, i, at) = {}
  BY <1>1
<1>3. RunesBefore(b, i, at) = Cardinality(StartingBefore(b, i, at))
  BY RunesStarting
<1>4. Cardinality({}) = 0
  BY FS_EmptySet
<1> QED BY <1>2, <1>3, <1>4, Zenon

LEMMA RunesMore ==
  ASSUME NEW b \in WellFormed, NEW i \in 1..Len(b), NEW at \in Nat, NEW to \in Nat, at <= to
  PROVE  RunesBefore(b, i, at) <= RunesBefore(b, i, to)
<1> DEFINE P == StartingBefore(b, i, at)
           Q == StartingBefore(b, i, to)
<1>1. ASSUME NEW k \in P
      PROVE  k \in Q
  <2>1. k \in 1..Len(b[i].runes) /\ k \in DOMAIN b[i].runes /\ StartOf(b, i, k) < at
    BY RunesStarting DEF StartingBefore
  <2>2. StartOf(b, i, k) \in Nat
    BY <2>1, StartsBetween
  <2>3. StartOf(b, i, k) < to
    BY <2>1, <2>2
  <2> QED BY <2>1, <2>3 DEF StartingBefore
<1>2. P \subseteq Q /\ IsFiniteSet(Q)
  BY <1>1, RunesStarting
<1>3. RunesBefore(b, i, at) = Cardinality(P) /\ RunesBefore(b, i, to) = Cardinality(Q)
  BY RunesStarting
<1> HIDE DEF P, Q
<1>4. Cardinality(P) <= Cardinality(Q)
  BY <1>2, FS_Subset
<1> QED BY <1>3, <1>4

(***************************************************************************)
(* The stream of the texts, and its boundaries.                             *)
(***************************************************************************)
LEMMA StreamConcats ==
  ASSUME NEW b \in WellFormed
  PROVE  /\ \E f \in [0..Len(b) -> Seq(Nat)] :
              Stream(b) = f[Len(b)] /\ Concats(f, RunesOf(b), Len(b))
         /\ Stream(b) \in Seq(Nat) /\ SumOf(Stream(b)) = TextTotal(b)
<1> DEFINE n == Len(b)
           q == RunesOf(b)
<1>1. n \in Nat /\ DOMAIN b = 1..n /\ \A i \in 1..n : b[i].runes \in Seq(Nat)
  BY BlockCount, BlockFields
<1>2. q \in [1..n -> Seq(Nat)]
  BY TextSumsType
<1>3. Stream(b) = FlattenSeq(q)
  BY Zenon DEF Stream, RunesOf
<1>4. \A i \in 1..n : q[i] = b[i].runes
  BY <1>1 DEF RunesOf
<1> HIDE DEF n, q
<1>5. PICK f \in [0..n -> Seq(Nat)] : FlattenSeq(q) = f[n] /\ Concats(f, q, n)
  BY <1>1, <1>2, FlattenConcats
<1> DEFINE G == {i \in Nat : i <= n => SumOf(f[i]) = Ends(b, i)}
<1>6. 0 \in G
  <2>1. f[0] = <<>> /\ Ends(b, 0) = 0
    BY <1>5, EndsStep DEF Concats
  <2>2. SumOf(f[0]) = Ends(b, 0)
    BY <2>1, SumEmpty, Zenon
  <2> QED BY <2>2
<1>7. ASSUME NEW i \in Nat, i \in G
      PROVE  i + 1 \in G
  <2> SUFFICES ASSUME i + 1 <= n
               PROVE  SumOf(f[i + 1]) = Ends(b, i + 1)
    OBVIOUS
  <2> DEFINE x == i + 1
             u == f[i]
             v == q[x]
  <2>1. x \in 1..n /\ x - 1 = i /\ i \in 0..n /\ i <= n
    BY <1>1
  <2>2. SumOf(u) = Ends(b, i)
    BY <1>7, <2>1
  <2>3. f[x] = f[x - 1] \o v
    BY <1>5, <2>1, Zenon DEF Concats
  <2>4. u \in Seq(Nat) /\ v \in Seq(Nat) /\ v = b[x].runes
    BY <1>2, <1>4, <2>1
  <2>5. f[x] = u \o v
    BY <2>1, <2>3
  <2> HIDE DEF x, u, v
  <2>6. SumOf(f[x]) = SumOf(u) + SumOf(v)
    BY <2>4, <2>5, SumConcat
  <2>7. Ends(b, x) = Ends(b, x - 1) + SumOf(b[x].runes)
    BY <2>1, EndsStep DEF n
  <2>8. SumOf(f[x]) = Ends(b, x)
    BY <2>1, <2>2, <2>4, <2>6, <2>7
  <2> QED BY <2>8 DEF x
<1> HIDE DEF G
<1>8. n \in G
  BY <1>1, <1>6, <1>7, SetInduction
<1>9. SumOf(f[n]) = Ends(b, n) /\ f[n] \in Seq(Nat)
  BY <1>1, <1>8 DEF G
<1>10. Ends(b, n) = TextTotal(b)
  BY EndsStep DEF n
<1>11. Stream(b) = f[n] /\ Concats(f, q, n)
  BY <1>3, <1>5
<1> QED BY <1>9, <1>10, <1>11 DEF n, q

LEMMA BoundariesOf ==
  ASSUME NEW b \in WellFormed, NEW o, o = TextTotal(b)
  PROVE  /\ Boundaries(b) \subseteq Nat /\ 0 \in Boundaries(b) /\ o \in Boundaries(b)
         /\ o \in Nat /\ \A x \in Boundaries(b) : x <= o
<1> DEFINE s == Stream(b)
<1>1. s \in Seq(Nat) /\ SumOf(s) = o
  BY StreamConcats
<1>2. Boundaries(b) = {SumOf(SubSeq(s, 1, k)) : k \in 0..Len(s)}
  BY Zenon DEF Boundaries
<1> HIDE DEF s
<1>3. Len(s) \in Nat /\ 0 \in 0..Len(s) /\ Len(s) \in 0..Len(s)
  BY <1>1
<1>4. \A k \in 0..Len(s) : SumOf(SubSeq(s, 1, k)) \in Nat /\ SumOf(SubSeq(s, 1, k)) <= o
  BY <1>1, PrefixSums
<1>5. SumOf(SubSeq(s, 1, 0)) = 0
  <2>1. SubSeq(s, 1, 0) = <<>>
    BY <1>1
  <2> QED BY <2>1, SumEmpty, Zenon
<1>6. SumOf(SubSeq(s, 1, Len(s))) = o
  BY <1>1, SubSeqFull
<1>7. o \in Nat
  BY <1>1, SumType
<1> QED BY <1>2, <1>3, <1>4, <1>5, <1>6, <1>7

\* The head ends before the tail starts.
LEMMA CutsOrdered ==
  ASSUME NEW b \in WellFormed, NEW keep \in 0..TextTotal(b)
  PROVE  HeadCut(b, keep) \in Nat /\ TailStart(b, keep) \in Nat
         /\ HeadCut(b, keep) <= TailStart(b, keep)
<1> DEFINE o == TextTotal(b)
           B == Boundaries(b)
           x == keep \div 2
           y == o - (keep - x)
           P == {z \in B : z <= x}
           Q == {z \in B : z >= y}
<1>1. B \subseteq Nat /\ 0 \in B /\ o \in B /\ o \in Nat /\ \A z \in B : z <= o
  BY BoundariesOf
<1>2. keep \in Nat /\ keep <= o
  BY <1>1
<1> HIDE DEF o, B
<1>3. x \in Nat /\ x <= keep
  BY <1>2
<1> HIDE DEF x
<1>4. y \in Nat /\ x <= y /\ y <= o
  BY <1>1, <1>2, <1>3
<1> HIDE DEF y
<1>5. P \subseteq Nat /\ 0 \in P /\ \A z \in P : z <= o
  <2>1. P \subseteq B
    OBVIOUS
  <2>2. 0 <= x
    BY <1>3
  <2>3. 0 \in P
    BY <1>1, <2>2, Zenon
  <2> HIDE DEF P
  <2> QED BY <1>1, <2>1, <2>3
<1>6. Q \subseteq Nat /\ o \in Q
  BY <1>1, <1>4
<1>7. HeadCut(b, keep) = Max(P) /\ TailStart(b, keep) = Min(Q)
  BY Zenon DEF HeadCut, TailStart, TextBoundaryBefore, TextBoundaryAfter, B, x, y, o
<1> HIDE DEF P, Q
<1>8. Max(P) \in P /\ Min(Q) \in Q
  BY <1>1, <1>5, <1>6, MaxOf, MinOf
<1>9. Max(P) \in Nat /\ Max(P) <= x /\ Min(Q) \in Nat /\ Min(Q) >= y
  BY <1>5, <1>6, <1>8 DEF P, Q
<1>10. Max(P) <= Min(Q)
  <2> DEFINE p == Max(P)
             q == Min(Q)
  <2>1. p \in Nat /\ p <= x /\ q \in Nat /\ q >= y
    BY <1>9
  <2> HIDE DEF p, q
  <2>2. p <= q
    BY <1>3, <1>4, <2>1
  <2> QED BY <2>2 DEF p, q
<1> QED BY <1>7, <1>9, <1>10

\* The text the marker goes to: those before it end before the cut, those
\* after it start after the cut.
LEMMA FirstText ==
  ASSUME NEW b \in WellFormed, HasText(b), NEW at \in Nat, NEW m, m = FirstTextAtOrAfter(b, at)
  PROVE  /\ m \in 1..Len(b) /\ ~b[m].image
         /\ \A i \in 1..Len(b) : i < m /\ ~b[i].image => Ends(b, i) < at
         /\ at <= Ends(b, m) \/ \A i \in 1..Len(b) : m < i => b[i].image
<1> DEFINE n == Len(b)
           texts == {i \in DOMAIN b : ~b[i].image}
           after == {i \in texts : at <= Ends(b, i)}
<1>1. n \in Nat /\ DOMAIN b = 1..n
  BY BlockCount
<1>2. m = IF after # {} THEN Min(after) ELSE Max(texts)
  BY Zenon DEF FirstTextAtOrAfter
<1>3. texts # {} /\ texts \subseteq Nat /\ \A i \in texts : i <= n
  BY <1>1 DEF HasText
<1>4. after \subseteq Nat
  BY <1>3
<1>5. \A i \in 1..n : Ends(b, i) \in Nat
  BY <1>1, EndsStep
<1> HIDE DEF n
<1>6. CASE after # {}
  <2>1. m = Min(after)
    BY <1>2, <1>6
  <2> HIDE DEF after, texts
  <2>2. m \in after /\ \A x \in after : m <= x
    BY <1>4, <1>6, <2>1, MinOf
  <2>3. m \in 1..n /\ ~b[m].image /\ at <= Ends(b, m)
    BY <1>1, <2>2 DEF after, texts
  <2>4. ASSUME NEW i \in 1..n, i < m, ~b[i].image
        PROVE  Ends(b, i) < at
    <3>1. i \notin after
      BY <1>1, <2>2, <2>3, <2>4
    <3>2. ~ (at <= Ends(b, i))
      BY <1>1, <2>4, <3>1 DEF after, texts
    <3> QED BY <1>5, <3>2
  <2> QED BY <2>3, <2>4 DEF n
<1>7. CASE after = {}
  <2>1. m = Max(texts)
    BY <1>2, <1>7
  <2>0. \A i \in texts : ~ (at <= Ends(b, i))
    BY <1>7
  <2> HIDE DEF after, texts
  <2>2. m \in texts /\ \A x \in texts : x <= m
    BY <1>1, <1>3, <2>1, MaxOf
  <2>3. m \in 1..n /\ ~b[m].image
    BY <1>1, <2>2 DEF texts
  <2>4. ASSUME NEW i \in 1..n, ~b[i].image
        PROVE  Ends(b, i) < at
    <3>1. i \in texts
      BY <1>1, <2>4 DEF texts
    <3> QED BY <1>5, <2>0, <3>1
  <2>5. ASSUME NEW i \in 1..n, m < i
        PROVE  b[i].image
    <3>1. i \notin texts
      BY <1>1, <2>2, <2>3, <2>5
    <3> QED BY <1>1, <3>1 DEF texts
  <2> QED BY <2>3, <2>4, <2>5 DEF n
<1> QED BY <1>6, <1>7

(***************************************************************************)
(* What applyKeep keeps.                                                    *)
(***************************************************************************)
RuneCuts(b, at) == [i \in 1..Len(b) |-> RunesBefore(b, i, at)]

LEMMA RuneCutsHold ==
  ASSUME NEW b \in WellFormed, HasText(b), NEW cut \in Nat, NEW rest \in Nat, cut <= rest,
         NEW m, m = FirstTextAtOrAfter(b, cut)
  PROVE  Cuts(m, Len(b), RunesOf(b), RuneCuts(b, cut), RuneCuts(b, rest))
<1> DEFINE n == Len(b)
           s == RunesOf(b)
           h == RuneCuts(b, cut)
           t == RuneCuts(b, rest)
<1>1. /\ n \in Nat /\ DOMAIN b = 1..n
      /\ \A i \in 1..n : b[i].runes \in Seq(Nat) /\ SumOf(b[i].runes) \in Nat
  BY BlockCount, BlockFields
<1>2. \A i \in 1..n : s[i] = b[i].runes
  BY <1>1 DEF RunesOf
<1>3. /\ \A i \in 1..n : h[i] = RunesBefore(b, i, cut)
      /\ \A i \in 1..n : t[i] = RunesBefore(b, i, rest)
  BY DEF RuneCuts
<1>4. \A i \in 1..n : h[i] \in 0..Len(s[i]) /\ t[i] \in 0..Len(s[i])
  BY <1>2, <1>3, RunesStarting
<1>5. /\ m \in 1..n /\ ~b[m].image
      /\ \A i \in 1..n : i < m /\ ~b[i].image => Ends(b, i) < cut
      /\ cut <= Ends(b, m) \/ \A i \in 1..n : m < i => b[i].image
  BY FirstText
<1>6. \A i \in 1..n : Ends(b, i) \in Nat /\ Ends(b, i - 1) \in Nat
  BY <1>1, EndsStep
<1>7. \A i \in 1..n : b[i].image => s[i] = <<>>
  <2> SUFFICES ASSUME NEW i \in 1..n, b[i].image
               PROVE  b[i].runes = <<>>
    BY <1>2
  <2>1. IsBlock(b[i])
    BY <1>1 DEF WellFormed
  <2> QED BY <2>1 DEF IsBlock
<1>8. Len(<<>>) = 0
  OBVIOUS
<1>9. \A i \in 1..n : b[i].image => h[i] = 0 /\ t[i] = 0 /\ Len(s[i]) = 0
  <2> SUFFICES ASSUME NEW i \in 1..n, b[i].image
               PROVE  h[i] = 0 /\ t[i] = 0 /\ Len(s[i]) = 0
    OBVIOUS
  <2>1. Len(s[i]) = 0
    BY <1>7, <1>8, Zenon
  <2> HIDE DEF s, h, t
  <2>2. h[i] \in 0..Len(s[i]) /\ t[i] \in 0..Len(s[i])
    BY <1>4
  <2> QED BY <2>1, <2>2
<1> HIDE DEF n, s, h, t
<1>10. ASSUME NEW i \in 1..n, i < m
       PROVE  h[i] = Len(s[i]) /\ t[i] = Len(s[i])
  <2>1. CASE b[i].image
    BY <1>9, <2>1
  <2>2. CASE ~b[i].image
    <3>1. Ends(b, i) < cut /\ Ends(b, i) < rest
      BY <1>5, <1>6, <1>10, <2>2
    <3>2. RunesBefore(b, i, cut) = Len(b[i].runes) /\ RunesBefore(b, i, rest) = Len(b[i].runes)
      BY <3>1, RunesAll DEF n
    <3> QED BY <1>2, <1>3, <3>2
  <2> QED BY <2>1, <2>2
<1>11. ASSUME NEW i \in 1..n, m < i
       PROVE  h[i] = 0
  <2>1. CASE b[i].image
    BY <1>9, <2>1
  <2>2. CASE ~b[i].image
    <3>1. cut <= Ends(b, m)
      BY <1>5, <1>11, <2>2
    <3>2. Ends(b, m) <= Ends(b, i - 1)
      <4> DEFINE l == i - 1
      <4>1. l \in 0..n /\ m \in 0..l
        BY <1>1, <1>5, <1>11
      <4> HIDE DEF l
      <4>2. Ends(b, m) <= Ends(b, l)
        BY <4>1, EndsMonotone DEF n
      <4> QED BY <4>2 DEF l
    <3>3. cut <= Ends(b, i - 1)
      BY <1>5, <1>6, <3>1, <3>2
    <3>4. RunesBefore(b, i, cut) = 0
      BY <3>3, RunesNone DEF n
    <3> QED BY <1>3, <3>4
  <2> QED BY <2>1, <2>2
<1>12. h[m] <= t[m]
  <2>1. RunesBefore(b, m, cut) <= RunesBefore(b, m, rest)
    BY <1>5, RunesMore DEF n
  <2> QED BY <1>3, <1>5, <2>1
<1>13. ASSUME NEW i \in 1..n, NEW l \in 1..n, i < l, t[l] # 0
       PROVE  t[i] = Len(s[i])
  <2>1. ~ (rest <= Ends(b, l - 1))
    <3> SUFFICES ASSUME rest <= Ends(b, l - 1)
                 PROVE  FALSE
      OBVIOUS
    <3>1. RunesBefore(b, l, rest) = 0
      BY RunesNone DEF n
    <3> QED BY <1>3, <1>13, <3>1
  <2>2. Ends(b, i) <= Ends(b, l - 1)
    <3> DEFINE k == l - 1
    <3>1. k \in 0..n /\ i \in 0..k
      BY <1>1, <1>13
    <3> HIDE DEF k
    <3>2. Ends(b, i) <= Ends(b, k)
      BY <3>1, EndsMonotone DEF n
    <3> QED BY <3>2 DEF k
  <2>3. Ends(b, i) < rest
    BY <1>6, <2>1, <2>2
  <2>4. RunesBefore(b, i, rest) = Len(b[i].runes)
    BY <2>3, RunesAll DEF n
  <2> QED BY <1>2, <1>3, <2>4
<1>14. Cuts(m, n, s, h, t)
  BY <1>4, <1>5, <1>10, <1>11, <1>12, <1>13 DEF Cuts
<1> QED BY <1>14 DEF n, s, h, t

\* Each text keeps its piece.
LEMMA ApplyKeepPieces ==
  ASSUME NEW b \in WellFormed, HasText(b), NEW keep \in 0..TextTotal(b),
         NEW cut, cut = HeadCut(b, keep), NEW rest, rest = TailStart(b, keep),
         NEW m, m = FirstTextAtOrAfter(b, cut), NEW d, d = ApplyKeep(b, keep)
  PROVE  /\ DOMAIN d = 1..Len(b)
         /\ \A i \in 1..Len(b) :
              RunesOf(d)[i] = Piece(i, m, RunesOf(b), RuneCuts(b, cut), RuneCuts(b, rest), Marker)
<1> DEFINE n == Len(b)
           s == RunesOf(b)
           h == RuneCuts(b, cut)
           t == RuneCuts(b, rest)
           head(i) == SubSeq(b[i].runes, 1, RunesBefore(b, i, cut))
           tail(i) == SubSeq(b[i].runes, RunesBefore(b, i, rest) + 1, Len(b[i].runes))
           mark(i) == IF i = m THEN Marker ELSE <<>>
           v(i) == (head(i) \o mark(i)) \o tail(i)
<1>1. n \in Nat /\ DOMAIN b = 1..n /\ \A i \in 1..n : b[i].runes \in Seq(Nat)
  BY BlockCount, BlockFields
<1>2. d = [i \in DOMAIN b |-> IF b[i].image THEN b[i] ELSE Text(v(i))]
  BY Zenon DEF ApplyKeep
<1>3. cut \in Nat /\ rest \in Nat /\ m \in 1..n /\ ~b[m].image
  BY CutsOrdered, FirstText
<1>4. \A i \in 1..n : s[i] = b[i].runes /\ h[i] = RunesBefore(b, i, cut) /\ t[i] = RunesBefore(b, i, rest)
  BY <1>1 DEF RunesOf, RuneCuts
<1> HIDE DEF n, s, h, t
<1>5. ASSUME NEW i \in 1..n
      PROVE  Piece(i, m, s, h, t, Marker) = v(i)
  BY <1>4, Zenon DEF Piece
<1>6. ASSUME NEW i \in 1..n, b[i].image
      PROVE  v(i) = <<>>
  <2>1. b[i].runes = <<>>
    <3>1. IsBlock(b[i])
      BY <1>1 DEF WellFormed
    <3> QED BY <1>6, <3>1 DEF IsBlock
  <2>2. RunesBefore(b, i, cut) = 0 /\ RunesBefore(b, i, rest) = 0
    <3>1. RunesBefore(b, i, cut) \in 0..Len(b[i].runes) /\ RunesBefore(b, i, rest) \in 0..Len(b[i].runes)
      BY <1>1, RunesBeforeType
    <3>2. Len(b[i].runes) = 0
      <4>1. Len(<<>>) = 0
        OBVIOUS
      <4> QED BY <2>1, <4>1, Zenon
    <3> QED BY <3>1, <3>2
  <2>3. head(i) = SubSeq(<<>>, 1, 0) /\ tail(i) = SubSeq(<<>>, 0 + 1, Len(<<>>))
    BY <2>1, <2>2, Zenon
  <2>4. SubSeq(<<>>, 1, 0) = <<>> /\ SubSeq(<<>>, 0 + 1, Len(<<>>)) = <<>>
    OBVIOUS
  <2>5. mark(i) = <<>>
    BY <1>3, <1>6
  <2>6. head(i) = <<>> /\ tail(i) = <<>>
    BY <2>3, <2>4, Zenon
  <2>7. v(i) = (<<>> \o <<>>) \o <<>>
    <3> HIDE DEF head, tail, mark
    <3> QED BY <2>5, <2>6
  <2>8. (<<>> \o <<>>) \o <<>> = <<>>
    OBVIOUS
  <2> HIDE DEF v
  <2> QED BY <2>7, <2>8
<1>7. DOMAIN d = 1..n /\ \A i \in 1..n : d[i] = IF b[i].image THEN b[i] ELSE Text(v(i))
  <2> HIDE DEF v
  <2> QED BY <1>1, <1>2
<1>8. ASSUME NEW i \in 1..n
      PROVE  RunesOf(d)[i] = Piece(i, m, s, h, t, Marker)
  <2>1. RunesOf(d)[i] = d[i].runes
    BY <1>7 DEF RunesOf
  <2>2. CASE b[i].image
    <3>1. d[i] = b[i] /\ b[i].runes = <<>>
      <4>1. IsBlock(b[i])
        BY <1>1 DEF WellFormed
      <4> HIDE DEF v
      <4> QED BY <1>7, <2>2, <4>1 DEF IsBlock
    <3>2. v(i) = <<>>
      BY <1>6, <2>2
    <3> HIDE DEF v
    <3> QED BY <1>5, <2>1, <3>1, <3>2
  <2>3. CASE ~b[i].image
    <3> HIDE DEF v
    <3>1. d[i] = Text(v(i))
      BY <1>7, <2>3
    <3>2. d[i].runes = v(i)
      BY <3>1 DEF Text
    <3> QED BY <1>5, <2>1, <3>2
  <2> QED BY <2>2, <2>3
<1> QED BY <1>7, <1>8 DEF n, s, h, t

\* The texts that are left are a head of the texts, the marker and a tail.
LEMMA ApplyKeepMarked ==
  ASSUME NEW b \in WellFormed, HasText(b), NEW keep \in 0..TextTotal(b),
         NEW d, d = ApplyKeep(b, keep)
  PROVE  \E k, j : Marked(Stream(d), Stream(b), k, j, Marker)
<1> DEFINE cut == HeadCut(b, keep)
           rest == TailStart(b, keep)
           m == FirstTextAtOrAfter(b, cut)
           n == Len(b)
           s == RunesOf(b)
           h == RuneCuts(b, cut)
           t == RuneCuts(b, rest)
           y == RunesOf(d)
<1>1. cut \in Nat /\ rest \in Nat /\ cut <= rest
  BY CutsOrdered
<1>2. /\ DOMAIN d = 1..n
      /\ \A i \in 1..n : y[i] = Piece(i, m, s, h, t, Marker)
  BY ApplyKeepPieces
<1>3. Cuts(m, n, s, h, t)
  <2> HIDE DEF cut, rest
  <2> QED BY <1>1, RuneCutsHold
<1>4. n \in Nat /\ s \in [1..n -> Seq(Nat)]
  BY BlockCount, TextSumsType
<1>5. Marker \in Seq(Nat)
  BY CollectorConstants DEF Marker
<1>6. PICK f \in [0..n -> Seq(Nat)] : Stream(b) = f[n] /\ Concats(f, s, n)
  BY StreamConcats
<1>7. d \in WellFormed
  BY ApplyKeepKept
<1>8. Len(d) = n
  <2>1. d \in Seq(Block) /\ Len(d) \in Nat /\ DOMAIN d = 1..Len(d)
    BY <1>7, BlockCount
  <2> HIDE DEF n
  <2> QED BY <1>2, <1>4, <2>1
<1>9. PICK g \in [0..n -> Seq(Nat)] : Stream(d) = g[n] /\ Concats(g, y, n)
  BY <1>7, <1>8, StreamConcats
<1> HIDE DEF m, n, s, h, t, y
<1>10. \E k, j : Marked(g[n], f[n], k, j, Marker)
  BY <1>2, <1>3, <1>4, <1>5, <1>6, <1>9, KeptPieces
<1> QED BY <1>6, <1>9, <1>10

\* An output not marked truncated is the whole of what it was made from.
TrueStats(r) ==
  LET s == Stream(r.of)
      t == Stream(r.blocks)
  IN /\ ~r.truncated => r.blocks = r.of
     /\ r.truncated =>
          \E k \in 0..Len(s) : \E j \in k..Len(s) :
            t = SubSeq(s, 1, k) \o Marker \o SubSeq(s, j + 1, Len(s))

LEMMA FinalizeBlocksTruthful ==
  ASSUME NEW b \in WellFormed, NEW l \in Limits, NEW r, r = FinalizeBlocks(b, l), r.kind = "sealed"
  PROVE  TrueStats(r)
<1> DEFINE verdict == InspectContent(b, l)
           over == TextTotal(b) > l.text \/ BlocksFrameSize(b) > l.framed
           keep == IF HasText(b) THEN BestKeep(b, l) ELSE -1
<1>1. r = IF verdict # "ok" THEN [kind |-> verdict]
          ELSE IF ~over THEN Seal(b, b, FALSE)
          ELSE IF keep < 0 THEN [kind |-> "limit"]
          ELSE Seal(ApplyKeep(b, keep), b, TRUE)
  BY Zenon DEF FinalizeBlocks
<1>2. verdict \in {"error", "limit", "ok"}
  BY DEF InspectContent
<1> HIDE DEF verdict, over
<1>3. CASE verdict # "ok"
  <2> HIDE DEF keep
  <2> QED BY <1>1, <1>2, <1>3
<1>4. CASE verdict = "ok" /\ ~over
  <2> HIDE DEF keep
  <2>1. r = Seal(b, b, FALSE)
    BY <1>1, <1>4
  <2>2. r.blocks = b /\ r.of = b /\ r.truncated = FALSE
    BY <2>1 DEF Seal
  <2> QED BY <2>2 DEF TrueStats
<1>5. CASE verdict = "ok" /\ over /\ keep < 0
  <2> HIDE DEF keep
  <2> QED BY <1>1, <1>5
<1>6. CASE verdict = "ok" /\ over /\ ~ (keep < 0)
  <2>1. HasText(b) /\ keep \in 0..TextTotal(b)
    <3> DEFINE k == BestKeep(b, l)
    <3>1. k = -1 \/ (k \in 0..TextTotal(b) /\ ShapeFits(b, k, l))
      BY BestKeepFits
    <3> HIDE DEF k
    <3>2. HasText(b)
      BY <1>6
    <3>3. keep = k
      BY <3>2 DEF k
    <3> HIDE DEF keep
    <3> QED BY <1>6, <3>1, <3>2, <3>3
  <2> HIDE DEF keep
  <2> DEFINE d == ApplyKeep(b, keep)
  <2>2. r = Seal(d, b, TRUE)
    BY <1>1, <1>6
  <2>3. \E k, j : Marked(Stream(d), Stream(b), k, j, Marker)
    BY <2>1, ApplyKeepMarked
  <2> HIDE DEF d
  <2>4. r.blocks = d /\ r.of = b /\ r.truncated = TRUE
    BY <2>2 DEF Seal
  <2> DEFINE s == Stream(b)
             t == Stream(d)
  <2>5. PICK k, j : Marked(t, s, k, j, Marker)
    BY <2>3
  <2>6. /\ k \in 0..Len(s) /\ j \in k..Len(s)
        /\ t = SubSeq(s, 1, k) \o Marker \o SubSeq(s, j + 1, Len(s))
    BY <2>5 DEF Marked
  <2>7. TrueStats(r) <=> \E p \in 0..Len(s) : \E q \in p..Len(s) :
                           t = SubSeq(s, 1, p) \o Marker \o SubSeq(s, q + 1, Len(s))
    BY <2>4, Zenon DEF TrueStats
  <2> QED BY <2>6, <2>7, Zenon
<1> QED BY <1>2, <1>3, <1>4, <1>5, <1>6

(***************************************************************************)
(* What a collector says of itself.                                         *)
(***************************************************************************)
\* As many increasing places as there are from one place to another are all.
LEMMA IncreasingWhole ==
  ASSUME NEW h \in Nat, NEW n \in Nat, h <= n, NEW w \in Seq((h + 1)..n), Increasing(w),
         Len(w) >= n - h
  PROVE  w = Positions(h + 1, n)
<1> DEFINE m == Len(w)
           z == Positions(h + 1, n)
           G == {i \in Nat : i \in 1..m => w[i] >= h + i}
           H == {k \in Nat : k < m => w[m - k] <= n - k}
<1>1. /\ m \in Nat /\ m >= n - h
      /\ \A i \in 1..m : w[i] \in Nat /\ w[i] >= h + 1 /\ w[i] <= n
  OBVIOUS
<1>2. \A i \in 1..(m - 1) : w[i] < w[i + 1]
  BY DEF Increasing
<1> HIDE DEF m
<1>3. \A i \in Nat : i \in G
  <2>1. 0 \in G
    BY <1>1
  <2>2. ASSUME NEW i \in Nat, i \in G
        PROVE  i + 1 \in G
    <3> SUFFICES ASSUME i + 1 \in 1..m
                 PROVE  w[i + 1] >= h + (i + 1)
      OBVIOUS
    <3>1. CASE i = 0
      BY <1>1, <3>1
    <3>2. CASE i # 0
      <4>1. i \in 1..m /\ i \in 1..(m - 1)
        BY <1>1, <3>2
      <4>2. w[i] >= h + i /\ w[i] < w[i + 1] /\ w[i] \in Nat /\ w[i + 1] \in Nat
        BY <1>1, <1>2, <2>2, <4>1
      <4> QED BY <4>2
    <3> QED BY <3>1, <3>2
  <2> HIDE DEF G
  <2> QED BY <2>1, <2>2, SetInduction
<1>4. \A k \in Nat : k \in H
  <2>1. 0 \in H
    <3> SUFFICES ASSUME 0 < m
                 PROVE  w[m - 0] <= n - 0
      OBVIOUS
    <3>1. m - 0 = m /\ n - 0 = n /\ m \in 1..m
      BY <1>1
    <3> QED BY <1>1, <3>1
  <2>2. ASSUME NEW k \in Nat, k \in H
        PROVE  k + 1 \in H
    <3> SUFFICES ASSUME k + 1 < m
                 PROVE  w[m - (k + 1)] <= n - (k + 1)
      OBVIOUS
    <3> DEFINE i == m - (k + 1)
    <3>1. i \in 1..(m - 1) /\ i \in 1..m /\ i + 1 = m - k /\ i + 1 \in 1..m /\ k < m
      BY <1>1
    <3> HIDE DEF i
    <3>2. w[i] < w[i + 1] /\ w[i + 1] <= n - k
      BY <1>2, <2>2, <3>1
    <3>3. w[i] \in Nat /\ w[i + 1] \in Nat
      BY <1>1, <3>1
    <3>4. w[i] <= n - (k + 1)
      BY <3>2, <3>3
    <3> QED BY <3>4 DEF i
  <2> HIDE DEF H
  <2> QED BY <2>1, <2>2, SetInduction
<1>5. m = n - h
  <2>1. CASE m = 0
    BY <1>1, <2>1
  <2>2. CASE m # 0
    <3>1. m \in 1..m /\ w[m] \in Nat
      BY <1>1, <2>2
    <3>2. w[m] >= h + m /\ w[m] <= n
      BY <1>1, <1>3, <3>1
    <3> QED BY <1>1, <3>1, <3>2
  <2> QED BY <2>1, <2>2
<1>6. ASSUME NEW i \in 1..m
      PROVE  w[i] = h + i
  <2>1. w[i] >= h + i
    BY <1>1, <1>3
  <2>2. m - i \in Nat /\ m - i < m /\ m - (m - i) = i /\ n - (m - i) = h + i
    BY <1>1, <1>5
  <2>3. w[i] <= h + i
    <3> DEFINE k == m - i
    <3>1. k \in Nat /\ k < m /\ m - k = i /\ n - k = h + i
      BY <2>2
    <3> HIDE DEF k
    <3>2. k \in H
      BY <1>4, <3>1
    <3>3. w[m - k] <= n - k
      BY <3>1, <3>2
    <3> QED BY <3>1, <3>3
  <2>4. w[i] \in Nat
    BY <1>1
  <2> QED BY <2>1, <2>3, <2>4
<1>7. z \in Seq(Nat) /\ Len(z) = n - h
  <2>1. h + 1 \in Nat /\ h + 1 <= n + 1 /\ n - (h + 1) + 1 = n - h
    OBVIOUS
  <2> QED BY <2>1, PositionsType
<1>8. \A i \in 1..m : z[i] = h + i
  <2> SUFFICES ASSUME NEW i \in 1..m
               PROVE  z[i] = h + i
    OBVIOUS
  <2>1. h + 1 \in Nat /\ i \in 1..(n - (h + 1) + 1) /\ (h + 1) + i - 1 = h + i
    BY <1>1, <1>5
  <2>2. z[i] = (h + 1) + i - 1
    BY <2>1, PositionsAt
  <2> QED BY <2>1, <2>2
<1> HIDE DEF z
<1>9. w = z
  <2>1. Len(w) = Len(z) /\ \A i \in 1..Len(w) : w[i] = z[i]
    BY <1>5, <1>6, <1>7, <1>8 DEF m
  <2> QED BY <1>7, <2>1, SeqExtensional
<1> QED BY <1>9 DEF z

\* A window within its budget that is all of its stream is not over it.
LEMMA NotAll ==
  ASSUME NEW c, IsCollector(c), WithinBudget(c), SumOf(c.stream) > c.budget
  PROVE  c.window # Positions(1, Len(c.stream))
<1>1. c.stream \in Seq(Nat) /\ c.budget \in Nat
  BY CollectorFields
<1>2. SumOf(c.stream) \in Nat
  BY <1>1, SumType
<1>3. Bytes(c, Positions(1, Len(c.stream))) = SumOf(c.stream)
  BY <1>1, BytesAll
<1> SUFFICES ASSUME c.window = Positions(1, Len(c.stream))
             PROVE  FALSE
  OBVIOUS
<1>4. SumOf(c.stream) <= c.budget
  BY <1>3 DEF WithinBudget
<1> QED BY <1>1, <1>2, <1>4

\* A cut window with a head and an increasing tail is not all of the stream.
LEMMA EndsLost ==
  ASSUME NEW c, IsCollector(c), WithinBudget(c), SumOf(c.stream) > c.budget,
         NEW tail \in Seq((c.head + 1)..Len(c.stream)), Increasing(tail),
         c.window = Positions(1, c.head) \o tail, c.head <= Len(c.stream)
  PROVE  Len(c.window) < Len(c.stream)
<1> DEFINE n == Len(c.stream)
           h == c.head
           head == Positions(1, h)
<1>1. n \in Nat /\ h \in Nat /\ h <= n
  BY CollectorFields
<1>2. head \in Seq(Nat) /\ Len(head) = h
  <2>1. 1 \in Nat /\ 1 <= h + 1 /\ h - 1 + 1 = h
    BY <1>1
  <2> QED BY <1>1, <2>1, PositionsType
<1>3. tail \in Seq((h + 1)..n) /\ tail \in Seq(Nat) /\ Len(tail) \in Nat
  <2>1. tail \in Seq((h + 1)..n)
    OBVIOUS
  <2>2. (h + 1)..n \subseteq Nat
    BY <1>1
  <2> DEFINE S == (h + 1)..n
  <2>3. tail \in Seq(S) /\ S \subseteq Nat
    BY <2>1, <2>2
  <2> HIDE DEF S
  <2>4. tail \in Seq(Nat)
    BY <2>3, SeqWiden
  <2> QED BY <2>1, <2>4, LenProperties
<1> HIDE DEF n, h, head
<1>4. c.window = head \o tail
  BY DEF head, h
<1>5. Len(c.window) = h + Len(tail)
  BY <1>2, <1>3, <1>4, ConcatType
<1>6. SUFFICES ASSUME ~ (Len(c.window) < n)
               PROVE  FALSE
  BY DEF n
<1>7. Len(tail) >= n - h
  BY <1>1, <1>3, <1>5, <1>6
<1>8. tail = Positions(h + 1, n)
  BY <1>1, <1>3, <1>7, IncreasingWhole
<1>9. Positions(1, h) \o Positions(h + 1, n) = Positions(1, n)
  <2>1. 1 \in Nat /\ 1 <= h + 1
    BY <1>1
  <2> QED BY <1>1, <2>1, PositionsConcat
<1>10. c.window = Positions(1, n)
  BY <1>4, <1>8, <1>9 DEF head
<1> QED BY <1>10, NotAll DEF n

LEMMA RecordsLost ==
  ASSUME NEW c, RecordCollector(c)
  PROVE  Lost(c)
<1>1. IsCollector(c) /\ c.omitted \in BOOLEAN /\ WithinBudget(c)
  BY CollectorFields, RecordsKept DEF RecordCollector, Kept
<1>2. ~c.omitted => c.window = Positions(1, Len(c.stream))
  BY DEF RecordCollector, RecordWindow, KeepsAll
<1>3. ASSUME c.omitted
      PROVE  Len(c.window) < Len(c.stream)
  <2>1. PICK tail \in Seq((c.head + 1)..Len(c.stream)) : KeepsEnds(c, tail) /\ Increasing(tail)
    BY <1>3 DEF RecordCollector, RecordWindow
  <2>2. c.window = Positions(1, c.head) \o tail /\ c.head <= Len(c.stream)
    BY <2>1 DEF KeepsEnds
  <2>3. SumOf(c.stream) > c.budget
    BY <1>3 DEF RecordCollector, OverBudget
  <2> QED BY <1>1, <2>1, <2>2, <2>3, EndsLost
<1> QED BY <1>2, <1>3 DEF Lost

LEMMA PlainLost ==
  ASSUME NEW c, Plain(c)
  PROVE  Lost(c)
<1>1. IsCollector(c) /\ c.omitted \in BOOLEAN /\ WithinBudget(c) /\ c.mode \in {"prefix", "headTail"}
      /\ Len(c.stream) \in Nat /\ c.head \in Nat /\ c.stream \in Seq(Nat)
  BY CollectorFields, PlainWithin
<1>2. CASE c.mode = "prefix"
  BY <1>2 DEF Plain
<1>3. CASE c.mode = "headTail"
  <2>0. PlainWindow(c) /\ Overflowed(c)
    BY <1>3 DEF Plain
  <2>1. ~c.omitted => c.window = Positions(1, Len(c.stream))
    BY <2>0 DEF PlainWindow, KeepsAll
  <2>2. ASSUME c.omitted
        PROVE  Len(c.window) < Len(c.stream)
    <3>1. CASE c.budget = 0 /\ c.stream # <<>>
      <4>1. c.window = <<>>
        BY <2>0, <3>1 DEF PlainWindow
      <4>2. Len(<<>>) = 0
        OBVIOUS
      <4>3. Len(c.window) = 0
        BY <4>1, <4>2, Zenon
      <4>4. Len(c.stream) # 0
        BY <1>1, <3>1, EmptySeq
      <4> QED BY <1>1, <4>3, <4>4
    <3>2. CASE SumOf(c.stream) > c.budget
      <4> DEFINE n == Len(c.stream)
      <4>1. PICK j \in c.head..n : KeepsEnds(c, Positions(j + 1, n))
        BY <2>0, <2>2 DEF PlainWindow
      <4> DEFINE tail == Positions(j + 1, n)
      <4>2. j \in Nat /\ j + 1 \in Nat /\ j + 1 <= n + 1 /\ c.head <= n
        BY <1>1, <4>1
      <4>3. tail \in Seq((j + 1)..n) /\ Increasing(tail)
        BY <1>1, <4>2, PositionsType, RunIncreasing
      <4>4. tail \in Seq((c.head + 1)..n)
        <5>1. (j + 1)..n \subseteq (c.head + 1)..n
          BY <1>1, <4>1
        <5> HIDE DEF tail
        <5> QED BY <4>3, <5>1, SeqWiden
      <4>5. c.window = Positions(1, c.head) \o tail
        BY <4>1 DEF KeepsEnds
      <4> HIDE DEF tail
      <4> QED BY <1>1, <3>2, <4>2, <4>3, <4>4, <4>5, EndsLost
    <3> QED BY <2>0, <2>2, <3>1, <3>2 DEF Overflowed
  <2> QED BY <2>1, <2>2 DEF Lost
<1> QED BY <1>1, <1>2, <1>3

\* What says it is truncated has lost something, and only that.
LEMMA TruncatedLost ==
  ASSUME NEW c, IsCollector(c), Lost(c)
  PROVE  Truncated(c) <=> Len(c.window) < Len(c.stream)
<1> DEFINE n == Len(c.stream)
<1>1. c.stream \in Seq(Nat) /\ n \in Nat /\ c.omitted \in BOOLEAN
  BY CollectorFields
<1>2. CASE c.omitted
  BY <1>2 DEF Lost, Truncated
<1>3. CASE ~c.omitted
  <2>1. c.window = Positions(1, n)
    BY <1>3 DEF Lost
  <2>2. KeptLogicalBytes(c) = SumOf(c.stream)
    BY <1>1, <2>1, BytesAll DEF KeptLogicalBytes
  <2>3. Len(c.window) = n
    <3>1. 1 \in Nat /\ 1 <= n + 1 /\ n - 1 + 1 = n
      BY <1>1
    <3> QED BY <1>1, <2>1, <3>1, PositionsType
  <2> QED BY <1>1, <1>3, <2>2, <2>3 DEF Truncated
<1> QED BY <1>1, <1>2, <1>3

(***************************************************************************)
(* What the executor says of an output.                                     *)
(***************************************************************************)
StatsInv ==
  /\ out.kind = "collected" => out.truncated = Truncated(col)
  /\ result.kind = "sealed" =>
       IF out.kind = "collected" THEN ~out.edited /\ result.truncated = out.truncated
                                 ELSE TrueStats(result)

LEMMA RenderOutputTruthful ==
  ASSUME NEW c, IsCollector(c), NEW s, NEW d, d = [c EXCEPT !.state = s], NEW m, NEW l,
         NEW o, o = RenderOutput(c, m, l), o.kind = "collected"
  PROVE  o.truncated = Truncated(d)
<1>1. d.stream = c.stream /\ d.window = c.window /\ d.omitted = c.omitted
  BY DEF IsCollector, Collectors
<1>2. Truncated(d) = Truncated(c)
  BY <1>1 DEF Truncated, KeptLogicalBytes, Bytes
<1> DEFINE r == RenderedBytes(c, m)
           t == Truncated(c)
           x == SingleTextFrameSize(SumOf(c.stream) + TrailerBytes + m)
           y == SingleTextFrameSize(r)
           small == ~ (m > MaxMetaBytes \/ OverLimit(r, l))
<1>3. o = IF ~small THEN [kind |-> "budget"]
          ELSE [kind |-> "collected", text |-> r, limits |-> l, original |-> x,
                kept |-> y, truncated |-> t, edited |-> FALSE]
  BY Zenon DEF RenderOutput
<1> HIDE DEF r, t, x, y, small
<1>4. o.truncated = t
  BY <1>3
<1> QED BY <1>2, <1>4 DEF t

LEMMA ResultNone ==
  ASSUME OutputInv, out = None
  PROVE  result = None
BY DEF OutputInv, OutInv, None, Collected, IsReceipt

LEMMA StatsInit == Init => StatsInv
BY DEF Init, StatsInv, None

\* A step that leaves the output for later, or hands one over.
LEMMA StatsUnsealed ==
  ASSUME result' = None, out'.kind = "collected" => out'.truncated = Truncated(col')
  PROVE  StatsInv'
BY DEF StatsInv, None

LEMMA StatsWriting ==
  ASSUME OutputInv, out = None, UNCHANGED <<out, result>>
  PROVE  StatsInv'
<1>1. result = None
  BY ResultNone
<1>2. out'.kind # "collected"
  BY DEF None
<1> QED BY <1>1, <1>2, StatsUnsealed

LEMMA OutputStats ==
  ASSUME OutputInv, Output
  PROVE  StatsInv'
<1> DEFINE done == IF kind = "headTail" THEN FlushPending(col) ELSE col
           s == "finished"
<1>1. PICK m \in Metas : col' = [done EXCEPT !.state = s] /\ out' = RenderOutput(done, m, limits)
  BY DEF Output, Hand
<1>2. Plain(col)
  BY DEF Output, OutputInv, CollectorInv
<1>3. Plain(done)
  <2> DEFINE c == FlushPending(col)
  <2>1. Plain(c)
    BY <1>2, FlushPendingPlain
  <2>2. CASE kind = "headTail"
    BY <2>1, <2>2
  <2>3. CASE kind # "headTail"
    BY <1>2, <2>3
  <2> QED BY <2>2, <2>3
<1>4. result' = result /\ out = None
  BY DEF Output, Hand
<1>5. result' = None
  BY <1>4, ResultNone
<1>6. IsCollector(done)
  BY <1>3 DEF Plain
<1> HIDE DEF done, s
<1>7. out'.kind = "collected" => out'.truncated = Truncated(col')
  BY <1>1, <1>6, RenderOutputTruthful
<1> QED BY <1>5, <1>7, StatsUnsealed

LEMMA GroupOutputStats ==
  ASSUME OutputInv, GroupOutput
  PROVE  StatsInv'
<1> DEFINE g0 == [col |-> col, src |-> src]
           names == SetToSeq(Sources)
           g == FoldLeft(FinishSource, g0, names)
           s == "finished"
           c == g.col
           d == [c EXCEPT !.state = s]
<1>1. PICK m \in Metas : col' = d /\ out' = RenderOutput(c, m, limits)
  BY Zenon DEF GroupOutput, Hand
<1>2. kind = "group" /\ result' = result /\ out = None
  BY DEF GroupOutput, Hand, Writable
<1>3. result' = None
  BY <1>2, ResultNone
<1>4. g \in Groups(MaxCollectorBody(limits))
  <2>1. g0 \in Groups(MaxCollectorBody(limits)) /\ names \in Seq(Sources)
    BY <1>2, GroupStep, SourceOrder
  <2> HIDE DEF g0, names
  <2> QED BY <2>1, FinishSourcesKept
<1> HIDE DEF g, s
<1>5. IsCollector(c)
  BY <1>4 DEF Groups, RecordCollector
<1> HIDE DEF c
<1>6. out'.kind = "collected" => out'.truncated = Truncated(col')
  BY <1>1, <1>5, RenderOutputTruthful
<1> QED BY <1>3, <1>6, StatsUnsealed

LEMMA ReturnBlocksStats ==
  ASSUME OutputInv, ReturnBlocks
  PROVE  StatsInv'
<1>1. PICK reused \in BOOLEAN : out' = [kind |-> IF reused THEN "sealed" ELSE "blocks"]
  BY DEF ReturnBlocks
<1>2. out = None /\ result' = result
  BY DEF ReturnBlocks
<1>3. result' = None
  BY <1>2, ResultNone
<1>4. out'.kind # "collected"
  <2>1. CASE reused
    BY <1>1, <2>1
  <2>2. CASE ~reused
    BY <1>1, <2>2
  <2> QED BY <2>1, <2>2
<1> QED BY <1>3, <1>4, StatsUnsealed

LEMMA EditCollectedStats ==
  ASSUME OutputInv, StatsInv, EditCollected
  PROVE  StatsInv'
<1>1. /\ out.kind = "collected" /\ result = None /\ out' = [out EXCEPT !.edited = TRUE]
      /\ result' = result /\ col' = col
  BY DEF EditCollected
<1>2. Collected(out)
  BY <1>1 DEF OutputInv, OutInv, None
<1>3. out'.truncated = out.truncated
  BY <1>1, <1>2 DEF Collected, IsReceipt
<1>4. out.truncated = Truncated(col)
  BY <1>1 DEF StatsInv
<1>5. Truncated(col') = Truncated(col)
  BY <1>1
<1> QED BY <1>1, <1>3, <1>4, <1>5, StatsUnsealed

\* A result made from blocks.
LEMMA StatsOfBlocks ==
  ASSUME UNCHANGED <<col, out>>, out.kind # "collected",
         result'.kind = "sealed" => TrueStats(result')
  PROVE  StatsInv'
BY DEF StatsInv, TrueStats

LEMMA BudgetWellFormed == BudgetBlocks \in WellFormed
<1> DEFINE ones == [i \in 1..BudgetText |-> 1]
           t == Text(ones)
           b == BudgetBlocks
<1>1. BudgetText \in Nat
  BY OutputConstants
<1>2. ones \in Seq(Nat)
  BY <1>1
<1>3. b = <<t>>
  BY DEF BudgetBlocks
<1> HIDE DEF ones, b
<1>4. t \in Block /\ IsBlock(t)
  BY <1>2, TextBlock
<1> HIDE DEF t
<1>5. DOMAIN b = {1} /\ b[1] = t /\ b \in Seq(Block)
  BY <1>3, <1>4
<1>6. b \in WellFormed
  BY <1>4, <1>5 DEF WellFormed
<1> QED BY <1>6 DEF b

LEMMA FinalizeCallStats ==
  ASSUME OutputInv, StatsInv, FinalizeCall
  PROVE  StatsInv'
<1> DEFINE final == Finalize(out)
           budget == FinalizeBlocks(BudgetBlocks, limits)
<1>1. result' = IF final.kind = "limit" THEN budget ELSE final
  BY Zenon DEF FinalizeCall
<1>2. out # None /\ UNCHANGED <<limits, kind, col, src, blocks, out>>
  BY DEF FinalizeCall
<1>3. limits \in Limits /\ blocks \in WellFormed
  BY DEF OutputInv, CollectorInv, OutInv
<1>4. BudgetBlocks \in WellFormed
  BY BudgetWellFormed
<1>5. budget.kind = "sealed" => TrueStats(budget)
  BY <1>3, <1>4, FinalizeBlocksTruthful
<1>6. \/ kind = "blocks" /\ out \in [kind : {"sealed", "blocks"}]
      \/ out = [kind |-> "budget"]
      \/ Collected(out)
  BY <1>2 DEF OutputInv, OutInv
<1>7. CASE kind = "blocks" /\ out \in [kind : {"sealed", "blocks"}]
  <2> DEFINE r == FinalizeBlocks(blocks, limits)
  <2>1. r.kind = "sealed" => TrueStats(r)
    BY <1>3, FinalizeBlocksTruthful
  <2>2. out.kind \in {"sealed", "blocks"}
    BY <1>7
  <2>3. final = [kind |-> "error"] \/ final = r
    <3>1. CASE out.kind = "sealed"
      BY <3>1 DEF Finalize
    <3>2. CASE out.kind = "blocks"
      BY <3>2 DEF Finalize
    <3> QED BY <2>2, <3>1, <3>2
  <2> HIDE DEF r, final, budget
  <2>4. result'.kind = "sealed" => TrueStats(result')
    <3>1. CASE result' = budget
      BY <1>5, <3>1
    <3>2. CASE result' = r
      BY <2>1, <3>2
    <3>3. CASE result' = [kind |-> "error"]
      BY <3>3
    <3> QED BY <1>1, <2>3, <3>1, <3>2, <3>3
  <2> QED BY <1>2, <2>2, <2>4, StatsOfBlocks
<1>8. CASE out = [kind |-> "budget"]
  <2>1. out.kind = "budget"
    BY <1>8
  <2>2. final = budget
    BY <2>1 DEF Finalize
  <2> HIDE DEF final, budget
  <2>3. result' = budget
    BY <1>1, <2>2
  <2>4. result'.kind = "sealed" => TrueStats(result')
    BY <1>5, <2>3
  <2> QED BY <1>2, <2>1, <2>4, StatsOfBlocks
<1>9. CASE Collected(out)
  <2>1. /\ out.kind = "collected"
        /\ \/ result' = [kind |-> "error"]
           \/ /\ ~out.edited
              /\ result' = [kind |-> "sealed", blocks |-> <<>>, of |-> <<>>, kept |-> out.kept,
                            text |-> out.text, original |-> out.original,
                            truncated |-> out.truncated]
    BY <1>9, CollectedResult
  <2>2. result'.kind = "sealed" => ~out.edited /\ result'.truncated = out.truncated
    BY <2>1
  <2>3. out.truncated = Truncated(col)
    BY <2>1 DEF StatsInv
  <2>4. out' = out /\ Truncated(col') = Truncated(col)
    BY <1>2
  <2> QED BY <2>1, <2>2, <2>3, <2>4 DEF StatsInv
<1> QED BY <1>6, <1>7, <1>8, <1>9

LEMMA AdaptToolOutputStats ==
  ASSUME OutputInv, AdaptToolOutput
  PROVE  StatsInv'
<1>1. result.kind = "sealed" /\ kind = "blocks" /\ UNCHANGED <<limits, kind, col, src, blocks, out>>
  BY DEF AdaptToolOutput
<1> DEFINE first(refused) == FinalizeBlocks(Downgrade(result.blocks, refused), limits)
           second(refused) == FinalizeBlocks(Compact(result.blocks, refused), limits)
<1>2. PICK refused :
        result' = IF first(refused).kind # "limit" THEN first(refused)
                  ELSE IF second(refused).kind = "sealed" THEN second(refused)
                  ELSE [kind |-> "error"]
  BY Zenon DEF AdaptToolOutput
<1>3. limits \in Limits /\ result.blocks \in WellFormed
  <2>1. result # None /\ result # [kind |-> "error"]
    BY <1>1 DEF None
  <2> QED BY <2>1 DEF OutputInv, CollectorInv, ResultInv
<1>4. out.kind # "collected"
  BY <1>1 DEF OutputInv, OutInv, None, Collected, IsReceipt
<1> DEFINE b == result.blocks
           x == Downgrade(b, refused)
           y == Compact(b, refused)
           f == first(refused)
           s == second(refused)
<1>5. x \in WellFormed /\ y \in WellFormed
  <2> HIDE DEF b
  <2>1. b \in WellFormed
    BY <1>3 DEF b
  <2> QED BY <2>1, DowngradeKept
<1>6. f = FinalizeBlocks(x, limits) /\ s = FinalizeBlocks(y, limits)
  OBVIOUS
<1>7. result' = IF f.kind # "limit" THEN f ELSE IF s.kind = "sealed" THEN s ELSE [kind |-> "error"]
  BY <1>2
<1> HIDE DEF x, y, f, s, first, second, b
<1>8. f.kind = "sealed" => TrueStats(f)
  BY <1>3, <1>5, <1>6, FinalizeBlocksTruthful
<1>9. s.kind = "sealed" => TrueStats(s)
  BY <1>3, <1>5, <1>6, FinalizeBlocksTruthful
<1>10. result'.kind = "sealed" => TrueStats(result')
  <2>1. CASE result' = f
    BY <1>8, <2>1
  <2>2. CASE result' = s
    BY <1>9, <2>2
  <2>3. CASE result' = [kind |-> "error"]
    BY <2>3
  <2> QED BY <1>7, <2>1, <2>2, <2>3
<1> QED BY <1>1, <1>4, <1>10, StatsOfBlocks

LEMMA StatsUnchanged ==
  ASSUME StatsInv, UNCHANGED outputVars
  PROVE  StatsInv'
<1>1. UNCHANGED <<col, out, result>>
  BY DEF outputVars
<1> QED BY <1>1 DEF StatsInv, Truncated, KeptLogicalBytes, Bytes, TrueStats

LEMMA StatsNext ==
  ASSUME OutputInv, StatsInv, [Next]_<<outputVars, readVars>>
  PROVE  StatsInv'
<1>1. CASE Write \/ WriteSource \/ Prepare
  <2>1. out = None /\ UNCHANGED <<out, result>>
    BY <1>1 DEF Write, WriteSource, Prepare, Writable
  <2> QED BY <2>1, StatsWriting
<1>4. CASE Output
  BY <1>4, OutputStats
<1>5. CASE GroupOutput
  BY <1>5, GroupOutputStats
<1>6. CASE ReturnBlocks
  BY <1>6, ReturnBlocksStats
<1>7. CASE EditCollected
  BY <1>7, EditCollectedStats
<1>8. CASE FinalizeCall
  BY <1>8, FinalizeCallStats
<1>9. CASE AdaptToolOutput
  BY <1>9, AdaptToolOutputStats
<1>10. CASE ReadFromLine
  <2>1. UNCHANGED outputVars
    BY <1>10 DEF ReadFromLine
  <2> QED BY <2>1, StatsUnchanged
<1>11. CASE ReadFromCursor
  <2>1. UNCHANGED outputVars
    BY <1>11 DEF ReadFromCursor
  <2> QED BY <2>1, StatsUnchanged
<1>12. CASE EditFile \/ ReadChanged \/ Restart
  <2>1. UNCHANGED outputVars
    BY <1>12 DEF EditFile, ReadChanged, Restart
  <2> QED BY <2>1, StatsUnchanged
<1>13. CASE UNCHANGED <<outputVars, readVars>>
  <2>1. UNCHANGED outputVars
    BY <1>13
  <2> QED BY <2>1, StatsUnchanged
<1> QED BY <1>1, <1>4, <1>5, <1>6, <1>7, <1>8, <1>9, <1>10, <1>11, <1>12, <1>13 DEF Next

LEMMA TruthfulFromInv ==
  ASSUME OutputInv, OriginInv, StatsInv
  PROVE  StatsTruthful
<1> SUFFICES ASSUME result.kind = "sealed"
             PROVE  IF out.kind = "collected" THEN CollectedStats ELSE BlockStats
  BY DEF StatsTruthful
<1>1. CASE out.kind = "collected"
  <2>1. ~out.edited /\ result.truncated = Truncated(col)
    BY <1>1 DEF StatsInv
  <2>2. kind \in {"prefix", "headTail", "group"}
    BY <1>1 DEF OutputInv, OutInv, None
  <2>3. IsCollector(col) /\ Lost(col)
    <3>1. CASE kind = "group"
      <4>1. RecordCollector(col)
        BY <3>1 DEF OutputInv, CollectorInv
      <4> QED BY <4>1, RecordsLost DEF RecordCollector
    <3>2. CASE kind # "group"
      <4>1. Plain(col)
        BY <2>2, <3>2 DEF OutputInv, CollectorInv
      <4> QED BY <4>1, PlainLost DEF Plain
    <3> QED BY <3>1, <3>2
  <2>4. Truncated(col) <=> Len(col.window) < Len(col.stream)
    BY <2>3, TruncatedLost
  <2> QED BY <1>1, <2>1, <2>4 DEF CollectedStats
<1>2. CASE out.kind # "collected"
  <2>1. TrueStats(result)
    BY <1>2 DEF StatsInv
  <2>2. result.of \in {blocks, BudgetBlocks} \/ Adapted
    BY <1>2 DEF OriginInv, Origin
  <2>3. BlockStats
    BY <2>1, <2>2, Zenon DEF BlockStats, TrueStats
  <2> QED BY <1>2, <2>3
<1> QED BY <1>1, <1>2

\* What the executor says of an output is true of what it was made from.  A
\* collector's is not vouched for once a tool changed it, and is marked truncated
\* exactly when something written is missing.  Content blocks are sealed from the
\* tool's content, from the budget error, or from content in which an image of the
\* tool's was replaced; unmarked they are the whole of that, marked their texts are
\* a head, the marker and a tail of its texts.  After images were replaced the mark
\* is about the replacement only (collector.go Output, output.go verifyReceipt,
\* truncateBlocks, applyKeep; tool.go adaptToolOutput).
THEOREM StatsAreTruthful == Spec => []StatsTruthful
<1>1. Init => StatsInv
  BY StatsInit
<1>2. OutputInv /\ StatsInv /\ [Next]_<<outputVars, readVars>> => StatsInv'
  BY StatsNext
<1>3. OutputInv /\ OriginInv /\ StatsInv => StatsTruthful
  BY TruthfulFromInv
<1> QED BY <1>1, <1>2, <1>3, OriginKept, PTL DEF Spec

(***************************************************************************)
(* The pages of a file.  A page of ASCII runes keeps as many of them as the *)
(* body budget has bytes, from the first, so its size is where the next     *)
(* page begins.                                                             *)
(***************************************************************************)
FileText == Seq({"a", "n", "w"})
AsciiRunes == {"a", "n"}
Ones(n) == [i \in 1..n |-> 1]
Fill(b, n) == IF n <= b THEN n ELSE b

\* The Prefix collector of budget b after n ASCII runes.
PageOf(b, n, state) ==
  [mode |-> "prefix", state |-> state, pending |-> <<>>, budget |-> b, stream |-> Ones(n),
   window |-> Positions(1, Fill(b, n)), head |-> 0, omitted |-> n > b]

LEMMA DecodePlaces ==
  ASSUME NEW in \in Seq(RawBytes), NEW final \in BOOLEAN, NEW esc \in Seq(Nat),
         NEW g, g = DecodeFunction(in, final, esc), NEW i \in 1..(Len(in) + 1)
  PROVE  g[i] = DecodeAt(in, final, esc, g, i)
<1>1. g = [j \in 1..(Len(in) + 1) |-> DecodeAt(in, final, esc, g, j)]
  BY DecodeFixed
<1> QED BY <1>1

LEMMA DecodeAscii ==
  ASSUME NEW final \in BOOLEAN, final = FALSE, NEW esc \in Seq(Nat), NEW in, in = <<"a">>
  PROVE  EscapeValidPrefix(in, final, esc) = [units |-> <<1>>, rest |-> <<>>]
<1> DEFINE g == DecodeFunction(in, final, esc)
<1>1. in \in Seq(RawBytes) /\ Len(in) = 1 /\ in[1] = "a"
  BY DEF RawBytes
<1>2. g = DecodeFunction(in, final, esc)
  OBVIOUS
<1> HIDE DEF g
<1>3. final \in BOOLEAN /\ esc \in Seq(Nat)
  OBVIOUS
<1>4. 1 \in 1..(Len(in) + 1) /\ 2 \in 1..(Len(in) + 1) /\ ~ (1 > Len(in)) /\ 2 > Len(in) /\ 1 + 1 = 2
  BY <1>1
<1>5. g[1] = DecodeAt(in, final, esc, g, 1) /\ g[2] = DecodeAt(in, final, esc, g, 2)
  <2>1. in \in Seq(RawBytes) /\ 1 \in 1..(Len(in) + 1) /\ 2 \in 1..(Len(in) + 1)
    BY <1>1, <1>4
  <2>2. g[1] = DecodeAt(in, final, esc, g, 1)
    BY ONLY <1>2, <1>3, <2>1, DecodePlaces
  <2>3. g[2] = DecodeAt(in, final, esc, g, 2)
    BY ONLY <1>2, <1>3, <2>1, DecodePlaces
  <2> QED BY <2>2, <2>3
<1>6. g[2] = [units |-> <<>>, rest |-> <<>>]
  BY <1>4, <1>5, Zenon DEF DecodeAt
<1>7. g[1] = [g[1 + 1] EXCEPT !.units = <<1>> \o @]
  <2>1. in[1] = "a" /\ in[1] # "l"
    BY <1>1
  <2> QED BY <1>4, <1>5, <2>1, Zenon DEF DecodeAt
<1>8. g[1] = [units |-> <<1>>, rest |-> <<>>]
  BY <1>4, <1>6, <1>7
<1> QED BY <1>2, <1>8, DecodeUnfolds

LEMMA DecodeNothing ==
  ASSUME NEW final \in BOOLEAN, final = TRUE, NEW esc \in Seq(Nat), NEW in, in = <<>>
  PROVE  EscapeValidPrefix(in, final, esc) = [units |-> <<>>, rest |-> <<>>]
<1> DEFINE g == DecodeFunction(in, final, esc)
<1>1. in \in Seq(RawBytes) /\ Len(in) = 0
  OBVIOUS
<1>2. g = DecodeFunction(in, final, esc)
  OBVIOUS
<1> HIDE DEF g
<1>3. final \in BOOLEAN /\ esc \in Seq(Nat)
  OBVIOUS
<1>4. 1 \in 1..(Len(in) + 1) /\ 1 > Len(in)
  BY <1>1
<1>5. g[1] = DecodeAt(in, final, esc, g, 1)
  <2>1. in \in Seq(RawBytes) /\ 1 \in 1..(Len(in) + 1)
    BY <1>1, <1>4
  <2> QED BY ONLY <1>2, <1>3, <2>1, DecodePlaces
<1>6. g[1] = [units |-> <<>>, rest |-> <<>>]
  BY <1>4, <1>5, Zenon DEF DecodeAt
<1> QED BY <1>2, <1>6, DecodeUnfolds

\* The bytes of a window on ASCII runes.
LEMMA BytesOfOnes ==
  ASSUME NEW n \in Nat, NEW c, c.stream = Ones(n), NEW w \in Seq(1..n)
  PROVE  Bytes(c, w) = Len(w)
<1>1. DOMAIN w = 1..Len(w) /\ Len(w) \in Nat /\ \A i \in 1..Len(w) : w[i] \in 1..n
  OBVIOUS
<1>2. [i \in DOMAIN w |-> c.stream[w[i]]] = [i \in 1..Len(w) |-> 1]
  BY <1>1 DEF Ones
<1> QED BY <1>1, <1>2, SumOfOnes DEF Bytes

LEMMA OnesType ==
  ASSUME NEW n \in Nat
  PROVE  /\ Ones(n) \in Seq(Nat) /\ Len(Ones(n)) = n
         /\ Ones(n) \o <<1>> = Ones(n + 1)
<1>1. Ones(n) \in Seq(Nat) /\ Len(Ones(n)) = n
  BY DEF Ones
<1>2. Ones(n + 1) \in Seq(Nat) /\ Len(Ones(n + 1)) = n + 1
  BY DEF Ones
<1>3. \A i \in 1..n : Ones(n)[i] = 1
  BY DEF Ones
<1>4. \A i \in 1..(n + 1) : Ones(n + 1)[i] = 1
  BY DEF Ones
<1> DEFINE s == Ones(n)
           t == Ones(n + 1)
           u == s \o <<1>>
<1>5. s \in Seq(Nat) /\ Len(s) = n /\ t \in Seq(Nat) /\ Len(t) = n + 1
      /\ (\A i \in 1..n : s[i] = 1) /\ (\A i \in 1..(n + 1) : t[i] = 1)
  BY <1>1, <1>2, <1>3, <1>4
<1> HIDE DEF s, t
<1>6. u \in Seq(Nat) /\ Len(u) = n + 1 /\ \A i \in 1..(n + 1) : u[i] = 1
  BY <1>5
<1>7. u = t
  <2> HIDE DEF u
  <2> QED BY <1>5, <1>6, SeqExtensional
<1> QED BY <1>1, <1>7 DEF s, t, u

LEMMA PageFields ==
  ASSUME NEW b \in Nat, NEW n \in Nat, NEW st, NEW c, c = PageOf(b, n, st)
  PROVE  /\ c.mode = "prefix" /\ c.pending = <<>> /\ c.budget = b /\ c.stream = Ones(n)
         /\ c.window = Positions(1, Fill(b, n)) /\ (c.omitted <=> n > b) /\ c.head = 0
         /\ c.state = st
         /\ Fill(b, n) \in 0..n /\ c.window \in Seq(1..n) /\ Len(c.window) = Fill(b, n)
         /\ Bytes(c, c.window) = Fill(b, n)
<1>1. /\ c.mode = "prefix" /\ c.pending = <<>> /\ c.budget = b /\ c.stream = Ones(n)
      /\ c.window = Positions(1, Fill(b, n)) /\ (c.omitted <=> n > b) /\ c.head = 0
      /\ c.state = st
  BY DEF PageOf
<1> DEFINE k == Fill(b, n)
           w == Positions(1, k)
<1>2. k \in 0..n
  BY DEF Fill
<1> HIDE DEF k
<1>3. w \in Seq(1..k) /\ Len(w) = k
  <2>1. 1 \in Nat /\ k \in Nat /\ 1 <= k + 1 /\ k - 1 + 1 = k
    BY <1>2
  <2> QED BY <2>1, PositionsType
<1> HIDE DEF w
<1>4. w \in Seq(1..n)
  <2>1. 1..k \subseteq 1..n
    BY <1>2
  <2> QED BY <1>3, <2>1, SeqWiden
<1>5. Bytes(c, w) = k
  BY <1>1, <1>3, <1>4, BytesOfOnes
<1> QED BY <1>1, <1>2, <1>3, <1>4, <1>5 DEF k, w

\* A Prefix collector that is being written, and what a write changes of it.
Writing(b, q, w, o) ==
  [mode |-> "prefix", state |-> "writing", pending |-> <<>>, budget |-> b, stream |-> q,
   window |-> w, head |-> 0, omitted |-> o]

LEMMA PageOmits ==
  ASSUME NEW b, NEW q, NEW w, NEW o, NEW t, NEW g, g = Writing(b, q, w, o)
  PROVE  [g EXCEPT !.omitted = t] = Writing(b, q, w, t)
BY DEF Writing

Moved(c, w, o) == [c EXCEPT !.window = w, !.omitted = o]

LEMMA PageMoves ==
  ASSUME NEW b, NEW q, NEW w, NEW o, NEW v, NEW t, NEW g, g = Writing(b, q, w, o)
  PROVE  Moved(g, v, t) = Writing(b, q, v, t)
<1> DEFINE h == [g EXCEPT !.window = v]
<1>1. h = Writing(b, q, v, o)
  BY DEF Writing
<1>2. [h EXCEPT !.omitted = t] = Writing(b, q, v, t)
  <2> HIDE DEF h
  <2> QED BY <1>1, PageOmits
<1>3. Moved(g, v, t) = [h EXCEPT !.omitted = t]
  BY DEF Moved
<1> QED BY <1>2, <1>3

LEMMA WriteAscii ==
  ASSUME NEW b \in Nat, NEW n \in Nat, NEW rune \in AsciiRunes, NEW c, c = PageOf(b, n, "writing")
  PROVE  WriteRune(c, rune) = PageOf(b, n + 1, "writing")
<1> DEFINE g == Grown(c, <<1>>)
           new == Positions(n + 1, n + 1)
           k == Fill(b, n)
           need == b - Bytes(g, g.window)
<1>1. /\ c.pending = <<>> /\ c.budget = b /\ c.stream = Ones(n) /\ c.mode = "prefix"
      /\ c.window = Positions(1, k)
      /\ k \in 0..n /\ c.window \in Seq(1..n) /\ Len(c.window) = k
  BY PageFields
<1>0. n + 1 \in Nat
  OBVIOUS
<1>2. WriteRune(c, rune) = ConsumeRaw(c, <<"a">>)
  BY Zenon DEF WriteRune, AsciiRunes
<1>3. ConsumeRaw(c, <<"a">>) = AcceptLogical(c, <<1>>)
  <2> DEFINE in == c.pending \o <<"a">>
             x == EscapeValidPrefix(in, FALSE, PlainEscape)
             d == [c EXCEPT !.pending = x.rest]
  <2>1. in = <<"a">>
    <3>1. <<>> \o <<"a">> = <<"a">>
      OBVIOUS
    <3> QED BY <1>1, <3>1, Zenon
  <2>2. PlainEscape \in Seq(Nat)
    BY DEF PlainEscape, EscapeBytes
  <2>3. ConsumeRaw(c, <<"a">>) = AcceptLogical(d, x.units)
    BY Zenon DEF ConsumeRaw
  <2> HIDE DEF in
  <2>4. x = [units |-> <<1>>, rest |-> <<>>]
    BY <2>1, <2>2, DecodeAscii
  <2> HIDE DEF x
  <2>5. x.units = <<1>> /\ x.rest = <<>>
    BY <2>4
  <2>6. d = c
    BY <1>1, <2>5 DEF PageOf
  <2> HIDE DEF d
  <2> QED BY <2>3, <2>5, <2>6
<1>4. /\ g.stream = Ones(n + 1) /\ g.window = Positions(1, k) /\ g.budget = b
      /\ g = [PageOf(b, n, "writing") EXCEPT !.stream = Ones(n + 1)]
      /\ Len(g.stream) = n + 1 /\ Len(c.stream) + 1 = n + 1
  <2>1. c.stream \o <<1>> = Ones(n + 1) /\ Len(c.stream) = n
    BY <1>1, OnesType
  <2>2. g = [c EXCEPT !.stream = Ones(n + 1)]
    BY <2>1, Zenon DEF Grown
  <2>3. Len(Ones(n + 1)) = n + 1
    BY OnesType
  <2> HIDE DEF g
  <2>4. g.stream = Ones(n + 1) /\ g.window = c.window /\ g.budget = c.budget
    BY <2>2 DEF PageOf
  <2> QED BY <1>1, <2>1, <2>2, <2>3, <2>4
<1>5. AcceptLogical(c, <<1>>) = AppendPrefix(g, new)
  <2>1. <<1>> # <<>>
    OBVIOUS
  <2>2. AcceptLogical(c, <<1>>) = AppendPrefix(g, Positions(Len(c.stream) + 1, Len(g.stream)))
    BY <1>1, <2>1, Zenon DEF AcceptLogical, Grown
  <2> QED BY <1>4, <2>2, Zenon
<1> HIDE DEF g
<1>6. Bytes(g, g.window) = k
  <2> DEFINE w == c.window
  <2>1. w \in Seq(1..(n + 1)) /\ Len(w) = k /\ g.window = w
    <3>1. 1..n \subseteq 1..(n + 1)
      OBVIOUS
    <3> QED BY <1>1, <1>4, <3>1, SeqWiden
  <2> HIDE DEF w
  <2>2. Bytes(g, w) = Len(w)
    BY <1>0, <1>4, <2>1, BytesOfOnes
  <2> QED BY <2>1, <2>2
<1>7. new \in Seq(1..(n + 1)) /\ Bytes(g, new) = 1
  <2>1. new \in Seq((n + 1)..(n + 1)) /\ Len(new) = 1
    <3>1. n + 1 \in Nat /\ n + 1 <= (n + 1) + 1 /\ (n + 1) - (n + 1) + 1 = 1
      OBVIOUS
    <3> QED BY <3>1, PositionsType
  <2>2. (n + 1)..(n + 1) \subseteq 1..(n + 1)
    OBVIOUS
  <2> HIDE DEF new
  <2>3. new \in Seq(1..(n + 1))
    BY <2>1, <2>2, SeqWiden
  <2>4. Bytes(g, new) = Len(new)
    BY <1>0, <1>4, <2>3, BytesOfOnes
  <2> QED BY <2>1, <2>3, <2>4
<1>8. AppendPrefix(g, new) =
        IF need <= 0 THEN [g EXCEPT !.omitted = TRUE]
        ELSE [g EXCEPT !.window = @ \o PrefixView(g, new, need), !.omitted = @ \/ Bytes(g, new) > need]
  <2>1. g.budget - Bytes(g, g.window) = need
    BY <1>4
  <2> QED BY <2>1, Zenon DEF AppendPrefix
<1>9. need = b - k /\ k \in Nat
  BY <1>1, <1>6
<1> HIDE DEF need, new
<1>9a. g = Writing(b, Ones(n + 1), Positions(1, k), n > b)
  <2> DEFINE o == n > b
             q == Ones(n + 1)
             v == Positions(1, k)
             p == Ones(n)
  <2>1. PageOf(b, n, "writing") = Writing(b, p, v, o)
    BY Zenon DEF PageOf, Writing
  <2>2. g = [PageOf(b, n, "writing") EXCEPT !.stream = q]
    BY <1>4
  <2> HIDE DEF o, q, v, p
  <2>3. g = Writing(b, q, v, o)
    BY <2>1, <2>2 DEF Writing
  <2> QED BY <2>3 DEF q, v, o
<1>10. CASE n >= b
  <2>1. k = b /\ Fill(b, n + 1) = b /\ n + 1 > b
    BY <1>10 DEF Fill
  <2>2. need <= 0
    BY <1>9, <2>1
  <2>3. AppendPrefix(g, new) = [g EXCEPT !.omitted = TRUE]
    BY <1>8, <2>2
  <2>4. [g EXCEPT !.omitted = TRUE] = Writing(b, Ones(n + 1), Positions(1, b), TRUE)
    <3> DEFINE t == TRUE
               o == n > b
               q == Ones(n + 1)
               w == Positions(1, b)
    <3>1. g = Writing(b, q, w, o)
      BY <1>9a, <2>1, Zenon
    <3> HIDE DEF t, o, q, w
    <3>2. [g EXCEPT !.omitted = t] = Writing(b, q, w, t)
      BY <3>1, PageOmits
    <3> QED BY <3>2, Zenon DEF t, q, w
  <2>5. PageOf(b, n + 1, "writing") = Writing(b, Ones(n + 1), Positions(1, b), TRUE)
    <3>1. (n + 1 > b) = TRUE
      BY <2>1
    <3> QED BY <2>1, <3>1, Zenon DEF PageOf, Writing
  <2> QED BY <1>2, <1>3, <1>5, <2>3, <2>4, <2>5, Zenon
<1>11. CASE n < b
  <2>1. k = n /\ Fill(b, n + 1) = n + 1 /\ ~ (n + 1 > b) /\ ~ (n > b)
    BY <1>11 DEF Fill
  <2>2. ~ (need <= 0) /\ need \in Nat /\ 1 <= need /\ ~ (1 > need)
    BY <1>9, <1>11, <2>1
  <2>3. PrefixView(g, new, need) = new
    BY <1>7, <2>2, PrefixViewAll
  <2>4. Positions(1, n) \o new = Positions(1, n + 1)
    <3>1. 1 \in Nat /\ n + 1 \in Nat /\ 1 <= n + 1 /\ n <= n + 1
      OBVIOUS
    <3> QED BY <3>1, PositionsConcat DEF new
  <2>5. AppendPrefix(g, new) = [g EXCEPT !.window = @ \o new, !.omitted = @ \/ Bytes(g, new) > need]
    BY <1>8, <2>2, <2>3
  <2>6. AppendPrefix(g, new) = Moved(g, Positions(1, n + 1), FALSE)
    <3>1. ~ g.omitted
      <4> DEFINE o == n > b
                 q == Ones(n + 1)
                 v == Positions(1, k)
      <4>1. g = Writing(b, q, v, o)
        BY <1>9a
      <4>2. ~ o
        BY <2>1
      <4> HIDE DEF o, q, v
      <4> QED BY <4>1, <4>2 DEF Writing
    <3>2. (g.omitted \/ Bytes(g, new) > need) = FALSE
      BY <1>7, <2>2, <3>1
    <3>3. g.window = Positions(1, n)
      BY <1>4, <2>1, Zenon
    <3> QED BY <2>4, <2>5, <3>2, <3>3, Zenon DEF Moved
  <2>7. Moved(g, Positions(1, n + 1), FALSE)
          = Writing(b, Ones(n + 1), Positions(1, n + 1), FALSE)
    <3> DEFINE t == FALSE
               o == n > b
               q == Ones(n + 1)
               w == Positions(1, k)
               v == Positions(1, n + 1)
    <3>1. g = Writing(b, q, w, o)
      BY <1>9a
    <3> HIDE DEF t, o, q, w, v
    <3>2. Moved(g, v, t) = Writing(b, q, v, t)
      BY <3>1, PageMoves
    <3> QED BY <3>2, Zenon DEF t, q, v
  <2>8. PageOf(b, n + 1, "writing") = Writing(b, Ones(n + 1), Positions(1, n + 1), FALSE)
    <3>1. (n + 1 > b) = FALSE
      BY <2>1
    <3> QED BY <2>1, <3>1, Zenon DEF PageOf, Writing
  <2> QED BY <1>2, <1>3, <1>5, <2>6, <2>7, <2>8, Zenon
<1> QED BY <1>10, <1>11

(***************************************************************************)
(* The fold over the runes of a page.                                       *)
(***************************************************************************)
RunesBody(c, s, f) ==
  [x \in SUBSET (DOMAIN s) |->
     IF x = {} THEN c ELSE WriteRune(f[x \ {Max(x)}], s[Max(x)])]

RunesFunction(c, s) == CHOOSE f : f = RunesBody(c, s, f)

WriteRunes(c, s) == FoldLeft(WriteRune, c, s)

LEMMA WriteRunesUnfold ==
  ASSUME NEW c, NEW s
  PROVE  WriteRunes(c, s) = RunesFunction(c, s)[DOMAIN s]
BY Zenon DEF WriteRunes, FoldLeft, MapThenFoldSet, RunesFunction, RunesBody

LEMMA OneMore ==
  ASSUME NEW m \in Nat, NEW s \in SUBSET (1..m), NEW x \in s
  PROVE  /\ Cardinality(s \ {x}) \in Nat /\ Cardinality(s) = Cardinality(s \ {x}) + 1
         /\ s \ {x} \in SUBSET (1..m)
<1>1. IsFiniteSet(1..m)
  BY FS_Interval
<1>2. IsFiniteSet(s)
  BY <1>1, FS_Subset
<1>3. IsFiniteSet(s \ {x}) /\ Cardinality(s \ {x}) = Cardinality(s) - 1
  BY <1>2, FS_RemoveElement
<1>4. Cardinality(s) \in Nat /\ Cardinality(s \ {x}) \in Nat
  BY <1>2, <1>3, FS_CardinalityType
<1> QED BY <1>3, <1>4

LEMMA WriteRunesAscii ==
  ASSUME NEW b \in Nat, NEW s \in Seq(AsciiRunes), NEW c, c = PageOf(b, 0, "writing")
  PROVE  WriteRunes(c, s) = PageOf(b, Len(s), "writing")
<1> DEFINE m == Len(s)
           X == {PageOf(b, n, "writing") : n \in Nat}
           st == [p \in (1..m) \X X |-> WriteRune(p[2], s[p[1]])]
           F == RunesFunction(c, s)
<1>0. m \in Nat /\ DOMAIN s = 1..m /\ \A i \in 1..m : s[i] \in AsciiRunes
  OBVIOUS
<1>1. ASSUME NEW i \in 1..m, NEW h \in X
      PROVE  WriteRune(h, s[i]) \in X
  <2>1. PICK n \in Nat : h = PageOf(b, n, "writing")
    OBVIOUS
  <2> DEFINE r == s[i]
  <2>2. r \in AsciiRunes
    BY <1>0
  <2> HIDE DEF r
  <2>3. WriteRune(h, r) = PageOf(b, n + 1, "writing")
    BY <2>1, <2>2, WriteAscii
  <2> QED BY <2>3 DEF r
<1>2. st \in [(1..m) \X X -> X]
  <2> SUFFICES ASSUME NEW i \in 1..m, NEW h \in X
               PROVE  WriteRune(h, s[i]) \in X
    OBVIOUS
  <2> QED BY <1>1
<1>2a. c \in X
  OBVIOUS
<1>3. PICK f \in [SUBSET (1..m) -> X] : LeftFold(m, c, st, f)
  <2> HIDE DEF m, X, st
  <2> QED BY <1>0, <1>2, <1>2a, LeftFoldExists DEF FoldFunctions
<1>4. f = RunesBody(c, s, f)
  <2>1. ASSUME NEW x \in SUBSET (1..m), x # {}
        PROVE  st[<<Max(x), f[x \ {Max(x)}]>>] = WriteRune(f[x \ {Max(x)}], s[Max(x)])
    <3>1. Max(x) \in 1..m /\ x \ {Max(x)} \in SUBSET (1..m)
      BY <1>0, <2>1, MaxIn
    <3>2. f[x \ {Max(x)}] \in X
      BY <3>1
    <3> DEFINE i == Max(x)
               h == f[x \ {i}]
    <3>3. i \in 1..m /\ h \in X
      BY <3>1, <3>2
    <3> HIDE DEF i, h, X
    <3> QED BY <3>3 DEF i, h
  <2> HIDE DEF st, X, m
  <2>2. f = [x \in SUBSET (1..m) |-> IF x = {} THEN c ELSE st[<<Max(x), f[x \ {Max(x)}]>>]]
    BY <1>3 DEF LeftFold
  <2> QED BY <1>0, <2>1, <2>2 DEF RunesBody
<1>5. F = RunesBody(c, s, F)
  BY <1>4, Zenon DEF RunesFunction
<1> HIDE DEF F
<1>6. \A x \in SUBSET (1..m) :
        F[x] = IF x = {} THEN c ELSE WriteRune(F[x \ {Max(x)}], s[Max(x)])
  BY <1>0, <1>5, Zenon DEF RunesBody
<1> DEFINE ch == [x \in SUBSET (1..m) |-> Max(x)]
           G == {x \in SUBSET (1..m) : F[x] = PageOf(b, Cardinality(x), "writing")}
<1>7. {} \in G
  <2>1. Cardinality({}) = 0
    BY FS_EmptySet
  <2>2. {} \in SUBSET (1..m)
    OBVIOUS
  <2>3. F[{}] = c
    BY <1>6, <2>2, Zenon
  <2>4. F[{}] = PageOf(b, Cardinality({}), "writing")
    BY <2>1, <2>3, Zenon
  <2> QED BY <2>2, <2>4, Zenon
<1>8. ASSUME NEW x \in SUBSET (1..m), x # {}, x \ {ch[x]} \in G
      PROVE  x \in G
  <2> DEFINE i == Max(x)
             r == s[i]
             y == x \ {i}
             n == Cardinality(y)
             h == F[y]
  <2>1. i \in x
    <3>1. x \subseteq Nat /\ \A z \in x : z <= m
      BY <1>0
    <3> QED BY <1>0, <1>8, <3>1, MaxOf
  <2>2. r \in AsciiRunes
    BY <1>0, <2>1
  <2>3. n \in Nat /\ Cardinality(x) = n + 1
    <3> HIDE DEF i
    <3> QED BY <1>0, <2>1, OneMore
  <2>4. h = PageOf(b, n, "writing")
    BY <1>8
  <2>5. F[x] = WriteRune(h, r)
    BY <1>6, <1>8, Zenon
  <2> HIDE DEF h, n, r, G, F
  <2>6. WriteRune(h, r) = PageOf(b, n + 1, "writing")
    BY <2>2, <2>3, <2>4, WriteAscii
  <2>7. F[x] = PageOf(b, Cardinality(x), "writing")
    BY <2>3, <2>5, <2>6, Zenon
  <2> QED BY <2>7, Zenon DEF G
<1>9. 1..m \in G
  <2>1. Chooses(ch, m)
    BY <1>0, MaxChooses
  <2> HIDE DEF G, ch, m
  <2>2. \A x \in SUBSET (1..m) : x \in G
    BY <1>0, <1>7, <1>8, <2>1, FoldInduction
  <2> QED BY <2>2
<1>10. Cardinality(1..m) = m
  <2> HIDE DEF m
  <2>1. Cardinality(1..m) = IF 1 > m THEN 0 ELSE m - 1 + 1
    BY <1>0, FS_Interval
  <2> QED BY <1>0, <2>1
<1>11. F[1..m] = PageOf(b, m, "writing")
  <2>1. F[1..m] = PageOf(b, Cardinality(1..m), "writing")
    BY <1>9
  <2> QED BY <1>10, <2>1, Zenon
<1> QED BY <1>0, <1>11, WriteRunesUnfold, Zenon DEF F

\* A page of an ASCII text, from start up to last.
LEMMA CollectAscii ==
  ASSUME NEW text \in FileText, Ascii(text), NEW last \in 0..Len(text), NEW start \in 0..last,
         limits \in Limits
  PROVE  CollectText(text, start, last)
           = PageOf(MaxCollectorBody(limits), last - start, "prepared")
<1> DEFINE b == MaxCollectorBody(limits)
           s == SubSeq(text, start + 1, last)
           n == last - start
           c == NewTextCollector(limits, "prefix")
           d == WriteRunes(c, s)
           e == [d EXCEPT !.pending = <<>>]
           x == EscapeValidPrefix(d.pending, TRUE, PlainEscape)
<1>1. b \in Nat
  BY BodyFits
<1>2. s \in Seq(AsciiRunes) /\ Len(s) = n /\ n \in Nat
  <2>1. text \in Seq({"a", "n", "w"}) /\ Len(text) \in Nat /\ start \in Nat /\ last \in Nat
    BY DEF FileText
  <2>2. \A i \in 1..Len(text) : text[i] \in AsciiRunes
    BY <2>1 DEF Ascii, AsciiRunes
  <2>3. text \in Seq(AsciiRunes)
    BY <2>1, <2>2
  <2> QED BY <2>1, <2>3
<1>3. c = PageOf(b, 0, "writing")
  <2>1. Ones(0) = <<>>
    BY DEF Ones
  <2>2. Positions(1, 0) = <<>>
    BY DEF Positions
  <2>3. Fill(b, 0) = 0 /\ (0 > b) = FALSE
    BY <1>1 DEF Fill
  <2> HIDE DEF b
  <2> QED BY <2>1, <2>2, <2>3, Zenon DEF PageOf, NewTextCollector, b
<1>4. CollectText(text, start, last) = PreparePrefix(d)
  BY Zenon DEF CollectText, WriteRunes
<1> HIDE DEF b, c, s, n
<1>5. d = PageOf(b, n, "writing")
  BY <1>1, <1>2, <1>3, WriteRunesAscii
<1> HIDE DEF d
<1>6. FlushPending(d) = AcceptLogical(e, x.units)
  BY Zenon DEF FlushPending
<1>7. d.pending = <<>>
  BY <1>5 DEF PageOf
<1>8. x = [units |-> <<>>, rest |-> <<>>]
  <2> DEFINE in == d.pending
  <2>1. in = <<>>
    BY <1>7
  <2>2. PlainEscape \in Seq(Nat)
    BY DEF PlainEscape, EscapeBytes
  <2> HIDE DEF in
  <2>3. EscapeValidPrefix(in, TRUE, PlainEscape) = [units |-> <<>>, rest |-> <<>>]
    BY <2>1, <2>2, DecodeNothing
  <2> QED BY <2>3 DEF in
<1> HIDE DEF x
<1>9. x.units = <<>>
  BY <1>8
<1>10. FlushPending(d) = e
  BY <1>6, <1>9, Zenon DEF AcceptLogical
<1>11. e = d
  BY <1>5, <1>7 DEF PageOf
<1> HIDE DEF e
<1>12. PreparePrefix(d) = [d EXCEPT !.state = "prepared"]
  BY <1>10, <1>11, Zenon DEF PreparePrefix
<1>13. [d EXCEPT !.state = "prepared"] = PageOf(b, n, "prepared")
  <2> DEFINE o == n > b
             q == Ones(n)
             w == Positions(1, Fill(b, n))
  <2>1. d = [mode |-> "prefix", state |-> "writing", pending |-> <<>>, budget |-> b, stream |-> q,
             window |-> w, head |-> 0, omitted |-> o]
    BY <1>5, Zenon DEF PageOf
  <2>2. PageOf(b, n, "prepared")
          = [mode |-> "prefix", state |-> "prepared", pending |-> <<>>, budget |-> b, stream |-> q,
             window |-> w, head |-> 0, omitted |-> o]
    BY Zenon DEF PageOf
  <2> HIDE DEF o, q, w
  <2> QED BY <2>1, <2>2
<1> QED BY <1>4, <1>12, <1>13 DEF b, n

(***************************************************************************)
(* Places in an ASCII text: an offset is a number of runes.                 *)
(***************************************************************************)
LEMMA OffsetAscii ==
  ASSUME NEW text \in FileText, Ascii(text), NEW k \in 0..Len(text)
  PROVE  Offset(text, k) = k
<1>1. \A i \in 1..k : i \in DOMAIN text
  BY DEF FileText
<1>2. \A i \in 1..k : Width(text[i]) = 1
  BY <1>1 DEF Ascii, Width
<1>3. [i \in 1..k |-> Width(text[i])] = [i \in 1..k |-> 1]
  BY <1>2
<1>4. k \in Nat
  BY DEF FileText
<1>5. Offset(text, k) = SumOf([i \in 1..k |-> 1])
  BY <1>3, Zenon DEF Offset
<1> QED BY <1>4, <1>5, SumOfOnes

LEMMA TextLength ==
  ASSUME NEW text \in FileText
  PROVE  Len(text) \in Nat /\ DOMAIN text = 1..Len(text)
BY DEF FileText

LEMMA StartAtAscii ==
  ASSUME NEW text \in FileText, Ascii(text), NEW o \in 0..Len(text)
  PROVE  StartAtOffset(text, o) = o
<1> DEFINE at == {k \in 0..Len(text) : Offset(text, k) = o}
<1>1. at = {o}
  <2>1. \A k \in 0..Len(text) : Offset(text, k) = k
    BY OffsetAscii
  <2> QED BY <2>1
<1>2. StartAtOffset(text, o) = IF at = {} THEN -1 ELSE Min(at)
  BY Zenon DEF StartAtOffset
<1>3. at \subseteq Nat /\ at # {}
  BY <1>1, TextLength
<1> HIDE DEF at
<1>4. Min(at) \in at
  BY <1>3, MinOf
<1> QED BY <1>1, <1>2, <1>3, <1>4

LEMMA StartAtLineType ==
  ASSUME NEW text \in FileText, NEW line, ~ (StartAtLine(text, line) < 0)
  PROVE  StartAtLine(text, line) \in 0..Len(text)
<1> DEFINE at == {k \in 0..(Len(text) - 1) : Cardinality(Newlines(text, 1, k)) = line - 1}
<1>1. StartAtLine(text, line) = IF at = {} THEN -1 ELSE Min(at)
  BY Zenon DEF StartAtLine
<1>2. Len(text) \in Nat
  BY TextLength
<1>3. at \subseteq 0..Len(text) /\ at \subseteq Nat
  BY <1>2
<1> HIDE DEF at
<1>4. CASE at = {}
  <2>1. -1 < 0
    OBVIOUS
  <2> QED BY <1>1, <1>4, <2>1
<1>5. CASE at # {}
  <2>1. Min(at) \in at
    BY <1>3, <1>5, MinOf
  <2> QED BY <1>1, <1>3, <1>5, <2>1
<1> QED BY <1>4, <1>5

LEMMA LastWrittenType ==
  ASSUME NEW text \in FileText, NEW start \in 0..Len(text), NEW lines
  PROVE  LastWritten(text, start, lines) \in start..Len(text)
<1> DEFINE stops == {k \in Newlines(text, start + 1, Len(text)) :
                       Cardinality(Newlines(text, start + 1, k)) = lines}
<1>1. LastWritten(text, start, lines) = IF stops = {} THEN Len(text) ELSE Min(stops)
  BY Zenon DEF LastWritten
<1>2. Len(text) \in Nat /\ start \in Nat /\ start <= Len(text)
  BY TextLength
<1>3. stops \subseteq start..Len(text) /\ stops \subseteq Nat
  <2>1. stops \subseteq Newlines(text, start + 1, Len(text))
    OBVIOUS
  <2>2. Newlines(text, start + 1, Len(text)) \subseteq (start + 1)..Len(text)
    BY DEF Newlines
  <2>3. (start + 1)..Len(text) \subseteq start..Len(text) /\ start..Len(text) \subseteq Nat
    BY <1>2
  <2> HIDE DEF stops
  <2> QED BY <2>1, <2>2, <2>3
<1> HIDE DEF stops
<1>4. CASE stops = {}
  BY <1>1, <1>2, <1>4
<1>5. CASE stops # {}
  <2>1. Min(stops) \in stops
    BY <1>3, <1>5, MinOf
  <2> QED BY <1>1, <1>3, <1>5, <2>1
<1> QED BY <1>4, <1>5

(***************************************************************************)
(* What a chain of reads has returned.                                      *)
(***************************************************************************)
\* The first k runes of a text from a place, each with its place.
Taken(text, start, k) == [i \in 1..k |-> <<start + i, text[start + i]>>]

LEMMA TakenMore ==
  ASSUME NEW text, NEW start \in Nat, NEW k \in Nat, NEW j \in Nat
  PROVE  Taken(text, start, k) \o Taken(text, start + k, j) = Taken(text, start, k + j)
<1> DEFINE S == {<<i, text[i]>> : i \in Nat}
           a == Taken(text, start, k)
           b == Taken(text, start + k, j)
           c == Taken(text, start, k + j)
<1>1. a \in Seq(S) /\ Len(a) = k /\ \A i \in 1..k : a[i] = <<start + i, text[start + i]>>
  BY DEF Taken
<1>2. b \in Seq(S) /\ Len(b) = j
      /\ \A i \in 1..j : b[i] = <<start + k + i, text[start + k + i]>>
  BY DEF Taken
<1>3. c \in Seq(S) /\ Len(c) = k + j
      /\ \A i \in 1..(k + j) : c[i] = <<start + i, text[start + i]>>
  BY DEF Taken
<1> HIDE DEF a, b, c, S
<1>4. a \o b \in Seq(S) /\ Len(a \o b) = k + j
  <2>1. Len(a \o b) = Len(a) + Len(b) /\ a \o b \in Seq(S)
    BY <1>1, <1>2, ConcatType
  <2> QED BY <1>1, <1>2, <2>1
<1>5. ASSUME NEW i \in 1..(k + j)
      PROVE  (a \o b)[i] = c[i]
  <2>1. CASE i <= k
    <3>1. i \in 1..k
      BY <2>1
    <3>2. (a \o b)[i] = a[i]
      BY <1>1, <1>2, <3>1
    <3> QED BY <1>1, <1>3, <3>1, <3>2
  <2>2. CASE i > k
    <3>1. i - k \in 1..j /\ start + k + (i - k) = start + i
      BY <2>2
    <3>2. (a \o b)[i] = b[i - k]
      <4>1. ~ (i <= Len(a)) /\ i \in 1..(Len(a) + Len(b)) /\ a \in Seq(S) /\ b \in Seq(S)
        BY <1>1, <1>2, <2>2
      <4>2. (a \o b)[i] = b[i - Len(a)]
        BY ONLY <4>1
      <4> QED BY <1>1, <4>2, Zenon
    <3>3. b[i - k] = <<start + k + (i - k), text[start + k + (i - k)]>>
      BY <1>2, <3>1
    <3> QED BY <1>3, <3>1, <3>2, <3>3
  <2>3. i <= k \/ i > k
    OBVIOUS
  <2> QED BY <2>1, <2>2, <2>3
<1>6. a \o b = c
  BY <1>3, <1>4, <1>5, SeqExtensional
<1> QED BY <1>6 DEF a, b, c

\* What was taken is a prefix of what there is to take.
LEMMA TakenPrefix ==
  ASSUME NEW text, NEW start, NEW n \in Nat, NEW k \in 0..n
  PROVE  IsPrefix(Taken(text, start, k), Taken(text, start, n))
<1> DEFINE S == {<<start + i, text[start + i]>> : i \in Nat}
           a == Taken(text, start, k)
           c == Taken(text, start, n)
<1>1. a \in Seq(S) /\ Len(a) = k /\ \A i \in 1..k : a[i] = <<start + i, text[start + i]>>
  BY DEF Taken
<1>2. c \in Seq(S) /\ Len(c) = n /\ \A i \in 1..n : c[i] = <<start + i, text[start + i]>>
  BY DEF Taken
<1> HIDE DEF a, c, S
<1>3. SubSeq(a, 1, k) \in Seq(S) /\ SubSeq(c, 1, k) \in Seq(S)
      /\ Len(SubSeq(a, 1, k)) = k /\ Len(SubSeq(c, 1, k)) = k
      /\ \A i \in 1..k : SubSeq(a, 1, k)[i] = a[i] /\ SubSeq(c, 1, k)[i] = c[i]
  <2>1. a \in Seq(S) /\ Len(a) = k /\ k \in Nat
    BY <1>1
  <2>2. c \in Seq(S) /\ Len(c) = n /\ k \in Nat /\ n \in Nat /\ k <= n
    BY <1>2
  <2>3. /\ SubSeq(a, 1, k) \in Seq(S) /\ Len(SubSeq(a, 1, k)) = k
        /\ \A i \in 1..k : SubSeq(a, 1, k)[i] = a[i]
    BY ONLY <2>1
  <2>4. /\ SubSeq(c, 1, k) \in Seq(S) /\ Len(SubSeq(c, 1, k)) = k
        /\ \A i \in 1..k : SubSeq(c, 1, k)[i] = c[i]
    BY ONLY <2>2
  <2> QED BY ONLY <2>3, <2>4
<1>4. \A i \in 1..k : a[i] = c[i]
  BY <1>1, <1>2
<1>5. SubSeq(a, 1, k) = SubSeq(c, 1, k)
  <2> DEFINE u == SubSeq(a, 1, k)
             v == SubSeq(c, 1, k)
  <2>1. u \in Seq(S) /\ v \in Seq(S) /\ Len(u) = k /\ Len(v) = k /\ \A i \in 1..k : u[i] = v[i]
    BY <1>3, <1>4
  <2> HIDE DEF u, v
  <2>2. u = v
    BY <2>1, SeqExtensional
  <2> QED BY <2>2 DEF u, v
<1>6. IsPrefix(a, c)
  BY <1>1, <1>2, <1>5 DEF IsPrefix
<1> QED BY <1>6 DEF a, c

(***************************************************************************)
(* One page of a chain of reads.                                            *)
(***************************************************************************)
Grow(ch, st, page) == [ch EXCEPT !.state = st, !.got = @ \o page]

\* The page p of a chain, with the next place and whether there is more.
PageStep(ch, start, next, more, p) ==
  IF more /\ next <= Offset(file.text, start) THEN Fail
  ELSE /\ chain' = Grow(ch, IF more THEN "more" ELSE "done", p)
       /\ more => cursor'.content = file.text /\ cursor'.offset = next

LEMMA PageSteps ==
  ASSUME NEW ch, NEW start, NEW line, NEW lines, Page(ch, start, line, lines),
         NEW last, last = LastWritten(file.text, start, lines),
         NEW c, c = CollectText(file.text, start, last),
         NEW next, next = NextOffset(c, Offset(file.text, start), Offset(file.text, last))
  PROVE  PageStep(ch, start, next, next < Offset(file.text, Len(file.text)),
                  [i \in DOMAIN c.window |-> <<start + c.window[i], file.text[start + c.window[i]]>>])
<1> DEFINE more == next < Offset(file.text, Len(file.text))
           p == [i \in DOMAIN c.window |-> <<start + c.window[i], file.text[start + c.window[i]]>>]
           nl == NextLine(file.text, start, line, next - Offset(file.text, start))
<1>1. IF more /\ next <= Offset(file.text, start) THEN Fail
      ELSE /\ chain' = [ch EXCEPT !.state = IF more THEN "more" ELSE "done", !.got = @ \o p]
           /\ cursor' = IF ~more THEN NoCursor
                        ELSE [key |-> keyID, identity |-> file.identity, content |-> file.text,
                              offset |-> next, lines |-> lines, line |-> nl]
  BY Zenon DEF Page
<1> HIDE DEF more, p, nl
<1>2. CASE more /\ next <= Offset(file.text, start)
  BY <1>1, <1>2, Zenon DEF PageStep, more
<1>3. CASE ~ (more /\ next <= Offset(file.text, start))
  <2>1. chain' = [ch EXCEPT !.state = IF more THEN "more" ELSE "done", !.got = @ \o p]
    BY <1>1, <1>3, Zenon
  <2>2. chain' = Grow(ch, IF more THEN "more" ELSE "done", p)
    BY <2>1, Zenon DEF Grow
  <2>3. ASSUME more
        PROVE  cursor'.content = file.text /\ cursor'.offset = next
    <3>1. cursor' = [key |-> keyID, identity |-> file.identity, content |-> file.text,
                     offset |-> next, lines |-> lines, line |-> nl]
      BY <1>1, <1>3, <2>3, Zenon
    <3> QED BY <3>1
  <2> QED BY <1>3, <2>2, <2>3, Zenon DEF PageStep, more, p
<1> QED BY <1>2, <1>3, Zenon DEF p, more

\* A page of an ASCII text begins where it was asked to, has no gap, and ends
\* where the next one begins.
LEMMA PageAscii ==
  ASSUME file.text \in FileText, Ascii(file.text), limits \in Limits,
         NEW ch, NEW start \in 0..Len(file.text), NEW line, NEW lines, Page(ch, start, line, lines)
  PROVE  \E j \in 0..(Len(file.text) - start) :
           PageStep(ch, start, start + j, start + j < Len(file.text), Taken(file.text, start, j))
<1> DEFINE text == file.text
           last == LastWritten(text, start, lines)
           b == MaxCollectorBody(limits)
           n == last - start
           j == Fill(b, n)
           c == CollectText(text, start, last)
           next == NextOffset(c, Offset(text, start), Offset(text, last))
           p == [i \in DOMAIN c.window |-> <<start + c.window[i], text[start + c.window[i]]>>]
<1>1. Len(text) \in Nat /\ start \in Nat /\ start <= Len(text)
  BY TextLength
<1>2. last \in start..Len(text)
  BY LastWrittenType
<1>3. b \in Nat
  BY BodyFits
<1>4. PageStep(ch, start, next, next < Offset(text, Len(text)), p)
  BY PageSteps
<1> HIDE DEF last, b, c, next, p
<1>5. last \in 0..Len(text) /\ start \in 0..last /\ n \in Nat /\ n <= Len(text) - start
  BY <1>1, <1>2
<1>6. c = PageOf(b, n, "prepared")
  <2>1. text \in FileText /\ Ascii(text)
    OBVIOUS
  <2> HIDE DEF text
  <2> QED BY <1>5, <2>1, CollectAscii DEF c, b
<1>7. /\ c.stream = Ones(n) /\ c.window = Positions(1, j) /\ (c.omitted <=> n > b)
      /\ j \in 0..n /\ Len(c.window) = j /\ Bytes(c, c.window) = j /\ c.window \in Seq(1..n)
  <2> HIDE DEF n
  <2> QED BY <1>3, <1>5, <1>6, PageFields
<1>8. Truncated(c) <=> n > b
  <2>1. SumOf(c.stream) = n
    <3>1. SumOf(Ones(n)) = n
      <4> HIDE DEF n
      <4> QED BY <1>5, SumOfOnes DEF Ones
    <3> QED BY <1>7, <3>1, Zenon
  <2>2. Truncated(c) <=> c.omitted \/ n # j
    BY <1>7, <2>1 DEF Truncated, KeptLogicalBytes
  <2>3. n # j => n > b
    BY <1>3, <1>5 DEF Fill
  <2> HIDE DEF j, n
  <2> QED BY <1>7, <2>2, <2>3
<1>9. next = start + j
  <2>1. Offset(text, start) = start /\ Offset(text, last) = last
    BY <1>1, <1>5, OffsetAscii
  <2>2. KeptLogicalBytes(c) = j
    BY <1>7 DEF KeptLogicalBytes
  <2>3. next = IF Truncated(c) THEN start + j ELSE last
    BY <2>1, <2>2, Zenon DEF next, NextOffset
  <2>4. ~ (n > b) => start + j = last
    BY <1>3, <1>5 DEF Fill
  <2> QED BY <1>8, <2>3, <2>4
<1>10. Offset(text, Len(text)) = Len(text)
  <2>1. Len(text) \in 0..Len(text)
    BY <1>1
  <2> QED BY <2>1, OffsetAscii
<1>11. p = Taken(text, start, j)
  <2>1. DOMAIN c.window = 1..j
    <3> DEFINE w == c.window
    <3>1. w \in Seq(1..n) /\ Len(w) = j
      BY <1>7
    <3> HIDE DEF w, n, j
    <3>2. DOMAIN w = 1..j
      BY <3>1
    <3> QED BY <3>2 DEF w
  <2>2. ASSUME NEW i \in 1..j
        PROVE  c.window[i] = i
    <3>1. Positions(1, j)[i] = i
      <4> HIDE DEF j
      <4>1. j \in Nat /\ 1..(j - 1 + 1) = 1..j /\ 1 + i - 1 = i
        BY <1>5, <1>7
      <4>2. i \in 1..(j - 1 + 1)
        BY <4>1
      <4>3. Positions(1, j)[i] = 1 + i - 1
        BY <4>1, <4>2, PositionsAt
      <4> QED BY <4>1, <4>3
    <3> QED BY <1>7, <3>1, Zenon
  <2> HIDE DEF j, text
  <2> QED BY <2>1, <2>2 DEF p, Taken
<1>12. j \in 0..(Len(text) - start)
  <2> HIDE DEF j, n
  <2> QED BY <1>1, <1>5, <1>7
<1>13. PageStep(ch, start, start + j, start + j < Len(text), Taken(text, start, j))
  BY <1>4, <1>9, <1>10, <1>11, Zenon
<1> HIDE DEF j
<1> QED BY <1>12, <1>13

(***************************************************************************)
(* A chain of reads of an ASCII text has returned its runes from the start  *)
(* up to some place, and a cursor continues there on the same text.         *)
(***************************************************************************)
ChainShape(ch) ==
  ch = [state |-> ch.state, got |-> ch.got, text |-> ch.text, start |-> ch.start]

Reading(ch, k) ==
  /\ ch.start \in 0..Len(ch.text)
  /\ k \in 0..(Len(ch.text) - ch.start)
  /\ ch.got = Taken(ch.text, ch.start, k)

\* Where a chain stands after k runes.
Standing(ch, cur, k) ==
  /\ Reading(ch, k)
  /\ ch.state = "done" => k = Len(ch.text) - ch.start
  /\ ch.state = "more" => cur.offset = ch.start + k

ChainInv ==
  /\ file \in [text : FileText, identity : Nat, epoch : Nat]
  /\ ChainShape(chain) /\ chain.text \in FileText
  /\ chain.state = "idle" => chain = Idle
  /\ chain.state = "more" => cursor.content = chain.text
  /\ Ascii(chain.text) => \E k : Standing(chain, cursor, k)

LEMMA IdleStands ==
  ASSUME NEW cur
  PROVE  ChainShape(Idle) /\ Idle.text \in FileText /\ Standing(Idle, cur, 0)
<1>1. ChainShape(Idle) /\ Idle.text \in FileText
  BY DEF ChainShape, Idle, FileText
<1>2. /\ Idle.start = 0 /\ Len(Idle.text) = 0 /\ Idle.got = <<>> /\ Idle.state = "idle"
      /\ Idle.text = <<>>
  BY DEF Idle
<1>3. Taken(<<>>, 0, 0) = <<>>
  BY DEF Taken
<1>4. Idle.got = Taken(Idle.text, Idle.start, 0)
  BY <1>2, <1>3, Zenon
<1>5. Reading(Idle, 0)
  <2>1. 0 \in 0..0 /\ 0 - 0 = 0
    OBVIOUS
  <2> QED BY <1>2, <1>4, <2>1 DEF Reading
<1>6. Standing(Idle, cur, 0)
  BY <1>2, <1>5 DEF Standing
<1> QED BY <1>1, <1>6

LEMMA ChainInit == Init => ChainInv
<1> SUFFICES ASSUME Init
             PROVE  ChainInv
  OBVIOUS
<1>1. /\ chain = Idle
      /\ file \in [text : IF kind = "read" THEN Files ELSE {<<>>}, identity : {1}, epoch : {0}]
  BY DEF Init
<1>2. file \in [text : FileText, identity : Nat, epoch : Nat]
  <2>1. Files \subseteq FileText /\ {<<>>} \subseteq FileText
    BY FileConstants DEF FileText
  <2> QED BY <1>1, <2>1
<1>3. chain.state # "more"
  BY <1>1 DEF Idle
<1> QED BY <1>1, <1>2, <1>3, IdleStands, Zenon DEF ChainInv

\* A failed chain keeps what it returned.
LEMMA FailKeeps ==
  ASSUME ChainInv, Fail, file' \in [text : FileText, identity : Nat, epoch : Nat]
  PROVE  ChainInv'
<1>1. chain' = [chain EXCEPT !.state = "failed"] /\ ChainShape(chain)
  BY DEF Fail, ChainInv
<1>2. /\ ChainShape(chain') /\ chain'.state = "failed" /\ chain'.text = chain.text
      /\ chain'.start = chain.start /\ chain'.got = chain.got
  BY <1>1 DEF ChainShape
<1>3. chain.text \in FileText /\ (Ascii(chain.text) => \E k : Standing(chain, cursor, k))
  BY DEF ChainInv
<1>4. ASSUME NEW k, Standing(chain, cursor, k)
      PROVE  Standing(chain', cursor', k)
  BY <1>2, <1>4 DEF Standing, Reading
<1> QED BY <1>2, <1>3, <1>4 DEF ChainInv

\* A page of a chain.
LEMMA GrowFields ==
  ASSUME NEW ch, ChainShape(ch), NEW st, NEW p, NEW d, d = Grow(ch, st, p)
  PROVE  ChainShape(d) /\ d.state = st /\ d.got = ch.got \o p /\ d.text = ch.text /\ d.start = ch.start
<1> DEFINE g == ch.got \o p
<1>1. d = [ch EXCEPT !.state = st, !.got = g]
  BY Zenon DEF Grow
<1> HIDE DEF g
<1>2. d = [state |-> st, got |-> g, text |-> ch.text, start |-> ch.start]
  BY <1>1 DEF ChainShape
<1> QED BY <1>2 DEF ChainShape, g

LEMMA PageKeeps ==
  ASSUME ChainInv, limits \in Limits, UNCHANGED file,
         NEW ch, ChainShape(ch), ch.text = file.text, NEW start \in 0..Len(file.text),
         Ascii(file.text) => \E k : Reading(ch, k) /\ start = ch.start + k,
         NEW line, NEW lines, Page(ch, start, line, lines)
  PROVE  ChainInv'
<1> DEFINE text == file.text
<1>1. /\ file \in [text : FileText, identity : Nat, epoch : Nat]
      /\ file' \in [text : FileText, identity : Nat, epoch : Nat]
      /\ text \in FileText
  BY DEF ChainInv
<1>2. CASE Fail
  BY <1>1, <1>2, FailKeeps
<1>3. CASE ~Fail /\ ~Ascii(text)
  <2>1. PICK st, p :
          /\ st \in {"more", "done"} /\ chain' = Grow(ch, st, p)
          /\ (st = "more" => cursor'.content = text)
    <3> DEFINE last == LastWritten(text, start, lines)
               c == CollectText(text, start, last)
               next == NextOffset(c, Offset(text, start), Offset(text, last))
               more == next < Offset(text, Len(text))
               p == [i \in DOMAIN c.window |-> <<start + c.window[i], text[start + c.window[i]]>>]
               st == IF more THEN "more" ELSE "done"
    <3>1. PageStep(ch, start, next, more, p)
      BY PageSteps
    <3> HIDE DEF next, more, p
    <3>2. chain' = Grow(ch, st, p) /\ (more => cursor'.content = text)
      BY <1>3, <3>1, Zenon DEF PageStep
    <3>3. st \in {"more", "done"} /\ (st = "more" => more)
      OBVIOUS
    <3> HIDE DEF st, more
    <3> QED BY <3>2, <3>3
  <2>2. ChainShape(chain') /\ chain'.state = st /\ chain'.text = text
    BY <2>1, GrowFields
  <2> HIDE DEF text
  <2> QED BY <1>1, <1>3, <2>1, <2>2 DEF ChainInv
<1>4. CASE ~Fail /\ Ascii(text)
  <2>1. PICK j \in 0..(Len(text) - start) :
          PageStep(ch, start, start + j, start + j < Len(text), Taken(text, start, j))
    BY <1>1, <1>4, PageAscii
  <2>2. PICK k : Reading(ch, k) /\ start = ch.start + k
    BY <1>4
  <2> DEFINE more == start + j < Len(text)
             st == IF more THEN "more" ELSE "done"
             p == Taken(text, start, j)
  <2>3. /\ chain' = Grow(ch, st, p)
        /\ more => cursor'.content = text /\ cursor'.offset = start + j
    BY <1>4, <2>1, Zenon DEF PageStep
  <2>4. /\ ChainShape(chain') /\ chain'.state = st /\ chain'.got = ch.got \o p
        /\ chain'.text = text /\ chain'.start = ch.start
    <3> HIDE DEF st, p, more
    <3> QED BY <2>3, GrowFields
  <2>5. /\ ch.start \in Nat /\ ch.start <= Len(text) /\ k \in Nat /\ j \in Nat /\ Len(text) \in Nat
        /\ ch.got = Taken(text, ch.start, k) /\ start = ch.start + k /\ start + j <= Len(text)
    BY <1>1, <2>1, <2>2, TextLength DEF Reading
  <2>6. chain'.got = Taken(text, ch.start, k + j)
    <3>1. Taken(text, ch.start, k) \o Taken(text, ch.start + k, j) = Taken(text, ch.start, k + j)
      BY <2>5, TakenMore
    <3> HIDE DEF text
    <3> QED BY <2>4, <2>5, <3>1, Zenon DEF p
  <2>7. Reading(chain', k + j)
    <3>1. ch.start \in 0..Len(text) /\ k + j \in 0..(Len(text) - ch.start)
      BY <2>5
    <3> HIDE DEF text
    <3> QED BY <2>4, <2>6, <3>1, Zenon DEF Reading
  <2>8. st = "done" => k + j = Len(text) - ch.start
    <3> SUFFICES ASSUME st = "done"
                 PROVE  k + j = Len(text) - ch.start
      OBVIOUS
    <3> DEFINE n == Len(text)
               s == ch.start
               m == start + j < n
    <3>1. ~m
      <4>1. st = IF m THEN "more" ELSE "done"
        OBVIOUS
      <4> HIDE DEF m, st
      <4> QED BY <4>1
    <3>2. s \in Nat /\ k \in Nat /\ j \in Nat /\ n \in Nat /\ start = s + k /\ start + j <= n
      BY <2>5
    <3>3. ~ (start + j < n)
      BY <3>1
    <3> HIDE DEF n, s
    <3>4. k + j = n - s
      BY ONLY <3>2, <3>3
    <3> QED BY <3>4 DEF n, s
  <2>9. st = "more" => cursor'.content = text /\ cursor'.offset = ch.start + (k + j)
    <3>1. start + j = ch.start + (k + j)
      <4>1. ch.start \in Nat /\ k \in Nat /\ j \in Nat /\ start = ch.start + k
        BY <2>5
      <4> QED BY ONLY <4>1
    <3>2. st = "more" => more
      <4> HIDE DEF more
      <4> QED OBVIOUS
    <3> HIDE DEF st, more
    <3> QED BY <2>3, <3>1, <3>2
  <2>10. st # "idle"
    OBVIOUS
  <2> HIDE DEF st, p, more, text
  <2>11. Standing(chain', cursor', k + j)
    BY <2>4, <2>7, <2>8, <2>9, Zenon DEF Standing
  <2> QED BY <1>1, <2>4, <2>9, <2>10, <2>11 DEF ChainInv
<1> QED BY <1>2, <1>3, <1>4

LEMMA ReadFromLineKeeps ==
  ASSUME ChainInv, limits \in Limits, ReadFromLine
  PROVE  ChainInv'
<1>1. PICK line, lines :
        LET start == StartAtLine(file.text, line)
        IN IF start < 0 THEN Fail
           ELSE Page([chain EXCEPT !.text = file.text, !.start = start], start, line, lines)
  BY Zenon DEF ReadFromLine
<1> DEFINE start == StartAtLine(file.text, line)
           ch == [chain EXCEPT !.text = file.text, !.start = start]
<1>2. UNCHANGED file /\ chain = Idle /\ file \in [text : FileText, identity : Nat, epoch : Nat]
  BY DEF ReadFromLine, ChainInv
<1>3. file.text \in FileText /\ file' \in [text : FileText, identity : Nat, epoch : Nat]
  BY <1>2
<1>4. CASE start < 0
  <2>1. Fail
    BY <1>1, <1>4, Zenon
  <2> QED BY <1>3, <2>1, FailKeeps
<1>5. CASE ~ (start < 0)
  <2>1. Page(ch, start, line, lines)
    BY <1>1, <1>5, Zenon
  <2>2. start \in 0..Len(file.text)
    BY <1>3, <1>5, StartAtLineType
  <2> HIDE DEF start
  <2>3. /\ ChainShape(ch) /\ ch.text = file.text /\ ch.start = start /\ ch.got = <<>>
    <3> DEFINE t == file.text
               d == [chain EXCEPT !.text = t]
    <3>1. d = [state |-> "idle", got |-> <<>>, text |-> t, start |-> 0]
      <4> HIDE DEF t
      <4> QED BY <1>2 DEF Idle
    <3>2. ch = [d EXCEPT !.start = start]
      BY Zenon DEF ch
    <3> HIDE DEF ch, d, t
    <3>3. ch = [state |-> "idle", got |-> <<>>, text |-> t, start |-> start]
      BY <3>1, <3>2
    <3> QED BY <3>3 DEF ChainShape, t
  <2> HIDE DEF ch
  <2>4. Reading(ch, 0) /\ start = ch.start + 0
    <3>1. Taken(ch.text, ch.start, 0) = <<>>
      BY DEF Taken
    <3>2. Len(file.text) \in Nat /\ 0 \in 0..(Len(file.text) - start) /\ start + 0 = start
      BY <1>3, <2>2, TextLength
    <3> QED BY <2>2, <2>3, <3>1, <3>2 DEF Reading
  <2> QED BY <1>2, <2>1, <2>2, <2>3, <2>4, PageKeeps
<1> QED BY <1>4, <1>5

LEMMA ReadFromCursorKeeps ==
  ASSUME ChainInv, limits \in Limits, ReadFromCursor
  PROVE  ChainInv'
<1> DEFINE start == StartAtOffset(file.text, cursor.offset)
<1>1. IF Stale(cursor) \/ start < 0 THEN Fail ELSE Page(chain, start, cursor.line, cursor.lines)
  BY Zenon DEF ReadFromCursor
<1>2. UNCHANGED file /\ chain.state = "more" /\ file \in [text : FileText, identity : Nat, epoch : Nat]
  BY DEF ReadFromCursor, ChainInv
<1>3. file.text \in FileText /\ file' \in [text : FileText, identity : Nat, epoch : Nat]
  BY <1>2
<1>4. CASE Stale(cursor) \/ start < 0
  <2>1. Fail
    BY <1>1, <1>4, Zenon
  <2> QED BY <1>3, <2>1, FailKeeps
<1>5. CASE ~ (Stale(cursor) \/ start < 0)
  <2>1. Page(chain, start, cursor.line, cursor.lines)
    BY <1>1, <1>5, Zenon
  <2>2. cursor.content = file.text
    BY <1>5 DEF Stale
  <2>3. start \in 0..Len(file.text)
    <3> DEFINE at == {k \in 0..Len(file.text) : Offset(file.text, k) = cursor.offset}
    <3>1. start = IF at = {} THEN -1 ELSE Min(at)
      BY Zenon DEF StartAtOffset
    <3>2. at \subseteq Nat /\ at \subseteq 0..Len(file.text)
      BY <1>3, TextLength
    <3>3. ~ (start < 0)
      BY <1>5
    <3> HIDE DEF at, start
    <3>4. at # {}
      <4>1. -1 < 0
        OBVIOUS
      <4> QED BY <3>1, <3>3, <4>1
    <3>5. Min(at) \in at
      BY <3>2, <3>4, MinOf
    <3> QED BY <3>1, <3>2, <3>4, <3>5
  <2>4. /\ ChainShape(chain) /\ chain.text = file.text
        /\ Ascii(chain.text) => \E k : Standing(chain, cursor, k)
    BY <1>2, <2>2 DEF ChainInv
  <2>5. ASSUME Ascii(file.text)
        PROVE  \E k : Reading(chain, k) /\ start = chain.start + k
    <3>1. PICK k : Standing(chain, cursor, k)
      BY <2>4, <2>5, Zenon
    <3>2. Reading(chain, k) /\ cursor.offset = chain.start + k
      BY <1>2, <3>1 DEF Standing
    <3> DEFINE o == cursor.offset
    <3>3. o \in 0..Len(file.text)
      <4>1. Len(file.text) \in Nat
        BY <1>3, TextLength
      <4> QED BY <2>4, <3>2, <4>1 DEF Reading
    <3> HIDE DEF o
    <3>4. StartAtOffset(file.text, o) = o
      BY <1>3, <2>5, <3>3, StartAtAscii
    <3> QED BY <3>2, <3>4 DEF o
  <2> HIDE DEF start
  <2> QED BY <1>2, <2>1, <2>3, <2>4, <2>5, PageKeeps
<1> QED BY <1>4, <1>5

LEMMA ChainUnchanged ==
  ASSUME ChainInv, file' \in [text : FileText, identity : Nat, epoch : Nat], UNCHANGED <<cursor, chain>>
  PROVE  ChainInv'
BY DEF ChainInv

LEMMA EditFileKeeps ==
  ASSUME ChainInv, EditFile
  PROVE  ChainInv'
<1>1. PICK text \in Edits, replaced \in BOOLEAN :
        file' = [text |-> text, epoch |-> file.epoch + 1,
                 identity |-> IF replaced THEN file.identity + 1 ELSE file.identity]
  BY DEF EditFile
<1>2. UNCHANGED <<cursor, chain>> /\ file.identity \in Nat /\ file.epoch \in Nat
  BY DEF EditFile, ChainInv
<1>3. text \in FileText
  BY FileConstants DEF FileText
<1> DEFINE i == IF replaced THEN file.identity + 1 ELSE file.identity
           e == file.epoch + 1
<1>4. i \in Nat /\ e \in Nat
  BY <1>2
<1>5. file' = [text |-> text, epoch |-> e, identity |-> i]
  BY <1>1
<1> HIDE DEF i, e
<1>6. file' \in [text : FileText, identity : Nat, epoch : Nat]
  BY <1>3, <1>4, <1>5
<1> QED BY <1>2, <1>6, ChainUnchanged

LEMMA ReadChangedKeeps ==
  ASSUME ChainInv, ReadChanged
  PROVE  ChainInv'
<1>1. PICK text \in Edits : file' = [file EXCEPT !.text = text, !.epoch = @ + 1]
  BY DEF ReadChanged
<1>2. Fail /\ file \in [text : FileText, identity : Nat, epoch : Nat]
  BY DEF ReadChanged, ChainInv
<1>3. text \in FileText
  BY FileConstants DEF FileText
<1>4. file' \in [text : FileText, identity : Nat, epoch : Nat]
  <2> DEFINE f == [file EXCEPT !.text = text]
             e == file.epoch + 1
  <2>1. f \in [text : FileText, identity : Nat, epoch : Nat] /\ f.epoch = file.epoch
    BY <1>2, <1>3
  <2>2. e \in Nat
    BY <1>2
  <2>3. file' = [f EXCEPT !.epoch = e]
    BY <1>1, Zenon
  <2> HIDE DEF f, e
  <2> QED BY <2>1, <2>2, <2>3
<1> QED BY <1>2, <1>4, FailKeeps

LEMMA RestartKeeps ==
  ASSUME ChainInv, Restart
  PROVE  ChainInv'
<1>1. /\ file' = [file EXCEPT !.epoch = @ + 1] /\ UNCHANGED <<cursor, chain>>
      /\ file \in [text : FileText, identity : Nat, epoch : Nat]
  BY DEF Restart, ChainInv
<1>2. file' \in [text : FileText, identity : Nat, epoch : Nat]
  BY <1>1
<1> QED BY <1>1, <1>2, ChainUnchanged

LEMMA ChainNext ==
  ASSUME ChainInv, limits \in Limits, [Next]_<<outputVars, readVars>>
  PROVE  ChainInv'
<1>1. CASE UNCHANGED readVars
  <2>1. UNCHANGED <<file, cursor, chain>>
    BY <1>1 DEF readVars
  <2> QED BY <2>1 DEF ChainInv
<1>2. CASE ReadFromLine
  BY <1>2, ReadFromLineKeeps
<1>3. CASE ReadFromCursor
  BY <1>3, ReadFromCursorKeeps
<1>4. CASE EditFile
  BY <1>4, EditFileKeeps
<1>5. CASE ReadChanged
  BY <1>5, ReadChangedKeeps
<1>6. CASE Restart
  BY <1>6, RestartKeeps
<1> QED BY <1>1, <1>2, <1>3, <1>4, <1>5, <1>6 DEF Next

\* The invariant says that pages reassemble.
LEMMA PagesFromInv ==
  ASSUME ChainInv
  PROVE  AsciiPagesReassemble
<1> SUFFICES ASSUME Ascii(chain.text)
             PROVE  PagesContiguous
  BY DEF AsciiPagesReassemble
<1>1. PICK k : Standing(chain, cursor, k)
  BY DEF ChainInv
<1> DEFINE n == Len(chain.text) - chain.start
<1>2. /\ chain.start \in Nat /\ n \in Nat /\ k \in 0..n
      /\ chain.got = Taken(chain.text, chain.start, k) /\ (chain.state = "done" => k = n)
  <2>1. chain.text \in FileText
    BY DEF ChainInv
  <2> QED BY <1>1, <2>1, TextLength DEF Standing, Reading
<1>3. Wanted = Taken(chain.text, chain.start, n)
  BY Zenon DEF Wanted, Taken
<1> HIDE DEF n
<1>4. IsPrefix(Taken(chain.text, chain.start, k), Taken(chain.text, chain.start, n))
  BY <1>2, TakenPrefix
<1> QED BY <1>2, <1>3, <1>4, Zenon DEF PagesContiguous

\* Following the cursors of an ASCII file returns, from the line asked for, the
\* runes of the text the first call saw, each once and in order, and all of them
\* when no cursor is left, whatever happens to the file and the process between
\* two calls (read.go readText, cursor.go open).
THEOREM AsciiPagesAreWhole == Spec => []AsciiPagesReassemble
<1>1. Init => OutputInv /\ ChainInv
  BY OutputInit, ChainInit
<1>2. OutputInv /\ ChainInv /\ [Next]_<<outputVars, readVars>> => OutputInv' /\ ChainInv'
  <2>1. OutputInv => limits \in Limits
    BY DEF OutputInv, CollectorInv
  <2> QED BY <2>1, OutputNext, ChainNext
<1>3. OutputInv /\ ChainInv => AsciiPagesReassemble
  BY PagesFromInv
<1> QED BY <1>1, <1>2, <1>3, PTL DEF Spec
=============================================================================

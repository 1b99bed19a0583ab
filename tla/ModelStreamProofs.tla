------------------------- MODULE ModelStreamProofs -------------------------
(***************************************************************************)
(* Proofs about ModelStream: whatever an EventSource returns, the events a  *)
(* reader is handed and the response it gets keep the contract of           *)
(* StreamContract.  The reducer and the limiter keep accumulators, the      *)
(* contract speaks of the whole sequence delivered; the invariant says that *)
(* the first are functions of the second.                                  *)
(*                                                                         *)
(* The texts a part adds up to are a recursive function of the sequence, so *)
(* the module starts with induction over the naturals, in a form without an *)
(* operator parameter: a set that holds 0 and is closed under successor     *)
(* holds them all, which follows from the library's least-element theorem.  *)
(***************************************************************************)
EXTENDS ModelStream, FiniteSetTheorems, SequenceTheorems,
        WellFoundedInduction, TLAPS

(* Induction. *)

\* The order of the naturals as a relation, to be used without its operator.
LEMMA LessOnNat ==
    \E R : IsWellFoundedOn(R, Nat) /\ \A y, z \in Nat : <<y, z>> \in R <=> y < z
<1>. DEFINE R == OpToRel(<, Nat)
<1>1. IsWellFoundedOn(R, Nat)
  BY NatLessThanWellFounded
<1>2. \A y, z \in Nat : <<y, z>> \in R <=> y < z
  BY DEF OpToRel
<1>. HIDE DEF R
<1>. QED BY <1>1, <1>2

\* A set with a well-founded order on the naturals has a minimal element.
LEMMA MinimalNat ==
  ASSUME NEW R, IsWellFoundedOn(R, Nat), NEW T, T \subseteq Nat, T # {}
  PROVE  \E x \in T : \A y \in T : ~ (<<y, x>> \in R)
BY WFMin

\* A nonempty set of naturals has a least element.
LEMMA LeastNat ==
  ASSUME NEW T, T \subseteq Nat, T # {}
  PROVE  \E x \in T : \A y \in T : x <= y
<1>1. PICK R : IsWellFoundedOn(R, Nat) /\ \A y, z \in Nat : <<y, z>> \in R <=> y < z
  BY LessOnNat
<1>2. PICK x \in T : \A y \in T : ~ (<<y, x>> \in R)
  BY <1>1, MinimalNat
<1>3. \A y \in T : x <= y
  <2>. SUFFICES ASSUME NEW y \in T PROVE x <= y
    OBVIOUS
  <2>1. x \in Nat /\ y \in Nat /\ ~ (<<y, x>> \in R)
    BY <1>2
  <2>2. ~ (y < x)
    BY <1>1, <2>1
  <2>. QED BY <2>1, <2>2
<1>. QED BY <1>3

\* Induction over the naturals, for a property given as the set of those that have it.
LEMMA SetInduction ==
  ASSUME NEW S, 0 \in S, \A n \in Nat : n \in S => n + 1 \in S
  PROVE  \A n \in Nat : n \in S
<1>1. SUFFICES ASSUME Nat \ S # {} PROVE FALSE
  OBVIOUS
<1>2. PICK x \in Nat \ S : \A y \in Nat \ S : x <= y
  BY <1>1, LeastNat
<1>3. x # 0 /\ x \in Nat
  BY <1>2
<1>4. x - 1 \in Nat /\ x - 1 < x
  BY <1>3
<1>5. x - 1 \in S
  BY <1>2, <1>3, <1>4
<1>. QED BY <1>2, <1>3, <1>4, <1>5

-----------------------------------------------------------------------------
(* FlattenSeq. *)

\* What FlattenSeq's local function is: the concatenation of the first i.
Flat(f, n, q) == f = [i \in 1..n |-> IF i = 1 THEN q[i] ELSE f[i - 1] \o q[i]]

\* There is such a function for every length.
LEMMA FlatExists ==
  ASSUME NEW q
  PROVE  \A n \in Nat : \E f : Flat(f, n, q)
<1>. DEFINE S == {n \in Nat : \E f : Flat(f, n, q)}
<1>1. 0 \in S
  <2>1. Flat([i \in 1..0 |-> q[i]], 0, q)
    BY DEF Flat
  <2>. QED BY <2>1
<1>2. ASSUME NEW n \in Nat, n \in S PROVE n + 1 \in S
  <2>1. PICK f : Flat(f, n, q)
    BY <1>2
  <2>. DEFINE v == IF n = 0 THEN q[1] ELSE f[n] \o q[n + 1]
  <2>. DEFINE g == [i \in 1..(n + 1) |-> IF i = n + 1 THEN v ELSE f[i]]
  <2>2. \A i \in 1..n : f[i] = IF i = 1 THEN q[i] ELSE f[i - 1] \o q[i]
    BY <2>1 DEF Flat
  <2>3. ASSUME NEW i \in 1..(n + 1)
        PROVE  g[i] = IF i = 1 THEN q[i] ELSE g[i - 1] \o q[i]
    <3>1. CASE i = n + 1 /\ n = 0
      BY <3>1
    <3>2. CASE i = n + 1 /\ n # 0
      <4>1. g[i] = f[n] \o q[n + 1]
        BY <3>2
      <4>2. i - 1 = n /\ n \in 1..(n + 1) /\ n # n + 1
        BY <3>2
      <4>3. g[n] = f[n]
        BY <4>2
      <4>4. g[i - 1] = f[n] /\ q[i] = q[n + 1] /\ i # 1
        BY <3>2, <4>2, <4>3
      <4>. QED BY <4>1, <4>4
    <3>3. CASE i # n + 1
      <4>1. i \in 1..n
        BY <3>3
      <4>2. g[i] = f[i]
        BY <3>3
      <4>3. i # 1 => i - 1 \in 1..(n + 1) /\ i - 1 # n + 1
        BY <4>1
      <4>4. i # 1 => g[i - 1] = f[i - 1]
        BY <4>3
      <4>5. f[i] = IF i = 1 THEN q[i] ELSE f[i - 1] \o q[i]
        BY <2>2, <4>1
      <4>. QED BY <4>2, <4>4, <4>5
    <3>. QED BY <3>1, <3>2, <3>3
  <2>4. g = [i \in 1..(n + 1) |-> IF i = 1 THEN q[i] ELSE g[i - 1] \o q[i]]
    <3>1. g = [i \in 1..(n + 1) |-> g[i]]
      OBVIOUS
    <3>. HIDE DEF g
    <3>. QED BY <3>1, <2>3
  <2>5. Flat(g, n + 1, q)
    BY <2>4 DEF Flat
  <2>. HIDE DEF g
  <2>. QED BY <2>5
<1>. HIDE DEF S
<1>3. \A n \in Nat : n \in S
  BY <1>1, <1>2, SetInduction
<1>. QED BY <1>3 DEF S

\* Two sequences that agree up to n have the same concatenations up to n.
LEMMA FlatAgree ==
  ASSUME NEW q, NEW p, NEW m \in Nat, NEW n \in Nat, NEW f, NEW g,
         Flat(f, m, p), Flat(g, n, q), m <= n,
         \A i \in 1..m : p[i] = q[i]
  PROVE  \A i \in 1..m : f[i] = g[i]
<1>. DEFINE S == {i \in Nat : i \in 1..m => f[i] = g[i]}
<1>1. /\ \A i \in 1..m : f[i] = IF i = 1 THEN p[i] ELSE f[i - 1] \o p[i]
      /\ \A i \in 1..n : g[i] = IF i = 1 THEN q[i] ELSE g[i - 1] \o q[i]
  BY DEF Flat
<1>2. 0 \in S
  OBVIOUS
<1>3. ASSUME NEW i \in Nat, i \in S PROVE i + 1 \in S
  <2>. SUFFICES ASSUME i + 1 \in 1..m PROVE f[i + 1] = g[i + 1]
    OBVIOUS
  <2>1. i + 1 \in 1..n /\ p[i + 1] = q[i + 1] /\ (i + 1) - 1 = i
    OBVIOUS
  <2>2. CASE i = 0
    BY <2>1, <2>2, <1>1
  <2>3. CASE i # 0
    <3>1. f[i] = g[i]
      BY <1>3, <2>3
    <3>. QED BY <3>1, <2>1, <2>3, <1>1
  <2>. QED BY <2>2, <2>3
<1>. HIDE DEF S
<1>4. \A i \in Nat : i \in S
  BY <1>2, <1>3, SetInduction
<1>. QED BY <1>4 DEF S

\* FlattenSeq of a nonempty sequence is the value of such a function.
LEMMA FlattenIsFlat ==
  ASSUME NEW q, Len(q) \in Nat \ {0}
  PROVE  \E f : Flat(f, Len(q), q) /\ FlattenSeq(q) = f[Len(q)]
<1>. DEFINE f == CHOOSE f : f = [i \in 1..Len(q) |-> IF i = 1 THEN q[i] ELSE f[i - 1] \o q[i]]
<1>1. \E g : Flat(g, Len(q), q)
  BY FlatExists
<1>2. Flat(f, Len(q), q)
  BY <1>1 DEF Flat
<1>3. FlattenSeq(q) = f[Len(q)]
  BY DEF FlattenSeq
<1>. QED BY <1>2, <1>3

\* Appending to a nonempty sequence of texts appends to what they add up to.
LEMMA FlattenAppend ==
  ASSUME NEW q, NEW p, NEW n \in Nat \ {0}, Len(q) = n, Len(p) = n + 1,
         \A i \in 1..n : p[i] = q[i]
  PROVE  FlattenSeq(p) = FlattenSeq(q) \o p[n + 1]
<1>1. PICK f : Flat(f, n, q) /\ FlattenSeq(q) = f[n]
  BY FlattenIsFlat
<1>2. PICK g : Flat(g, n + 1, p) /\ FlattenSeq(p) = g[n + 1]
  <2>1. Len(p) \in Nat \ {0}
    OBVIOUS
  <2>. QED BY <2>1, FlattenIsFlat
<1>3. n + 1 \in Nat /\ n <= n + 1
  OBVIOUS
<1>4. \A i \in 1..n : f[i] = g[i]
  <2>1. Flat(f, n, q) /\ Flat(g, n + 1, p)
    BY <1>1, <1>2
  <2>2. \A i \in 1..n : q[i] = p[i]
    OBVIOUS
  <2>. QED BY <1>3, <2>1, <2>2, FlatAgree
<1>5. f[n] = g[n]
  BY <1>4
<1>6. g[n + 1] = IF n + 1 = 1 THEN p[n + 1] ELSE g[n] \o p[n + 1]
  <2>1. g = [i \in 1..(n + 1) |-> IF i = 1 THEN p[i] ELSE g[i - 1] \o p[i]]
    BY <1>2 DEF Flat
  <2>2. n + 1 \in 1..(n + 1) /\ (n + 1) - 1 = n
    OBVIOUS
  <2>. QED BY <2>1, <2>2
<1>7. n + 1 # 1
  OBVIOUS
<1>. QED BY <1>1, <1>2, <1>5, <1>6, <1>7

\* One text adds up to itself.
LEMMA FlattenOne ==
  ASSUME NEW q, Len(q) = 1
  PROVE  FlattenSeq(q) = q[1]
<1>1. PICK f : Flat(f, Len(q), q) /\ FlattenSeq(q) = f[Len(q)]
  <2>1. Len(q) \in Nat \ {0}
    OBVIOUS
  <2>. QED BY <2>1, FlattenIsFlat
<1>2. f[1] = q[1]
  BY <1>1 DEF Flat
<1>. QED BY <1>1, <1>2

-----------------------------------------------------------------------------
(* Lists, and what one more event makes of them.                             *)

IsList(s) == s \in Seq(Range(s))

\* t is s with e after it.
Extends(t, s, e) ==
    /\ Len(s) \in Nat /\ DOMAIN s = 1..Len(s)
    /\ Len(t) = Len(s) + 1 /\ DOMAIN t = 1..(Len(s) + 1)
    /\ t[Len(s) + 1] = e
    /\ \A i \in 1..Len(s) : t[i] = s[i]

\* Append keeps a list a list and extends it.
LEMMA AppendExtends ==
  ASSUME NEW s, IsList(s), NEW e
  PROVE  IsList(Append(s, e)) /\ Extends(Append(s, e), s, e)
<1>. DEFINE t == Append(s, e)
<1>. DEFINE D == Range(s) \cup {e}
<1>1. s \in Seq(D) /\ e \in D
  BY SeqMonotonic DEF IsList
<1>. HIDE DEF D
<1>2. t \in Seq(D)
  BY <1>1
<1>3. Extends(t, s, e)
  BY <1>1 DEF Extends
<1>4. t \in [1..Len(t) -> D] /\ Len(t) \in Nat
  BY <1>2, LenProperties
<1>5. t \in [1..Len(t) -> Range(t)]
  <2>. HIDE DEF t
  <2>. QED BY <1>4 DEF Range
<1>6. t \in Seq(Range(t))
  <2>. HIDE DEF t
  <2>. QED BY <1>4, <1>5
<1>. QED BY <1>3, <1>6 DEF IsList

\* A list has a length and the indexes up to it.
LEMMA ListIndexes ==
  ASSUME NEW s, IsList(s)
  PROVE  Len(s) \in Nat /\ DOMAIN s = 1..Len(s)
BY LenProperties DEF IsList

\* A function over 1..n is a sequence of length n.
LEMMA FunctionLength ==
  ASSUME NEW n \in Nat, NEW q, NEW D, q \in [1..n -> D]
  PROVE  Len(q) = n
<1>1. q \in Seq(D)
  OBVIOUS
<1>2. Len(q) \in Nat /\ DOMAIN q = 1..Len(q)
  BY <1>1, LenProperties
<1>3. 1..Len(q) = 1..n
  BY <1>2
<1>. QED BY <1>2, <1>3

\* The text an event adds to part k.
TextFor(e, k) == IF e.kind = "delta" /\ e.key = k THEN e.text ELSE <<>>

\* DeltaText as the concatenation of those.
Texts(s, k) == [i \in DOMAIN s |-> TextFor(s[i], k)]
LEMMA DeltaTextIs ==
  ASSUME NEW s, NEW k
  PROVE  Contract!DeltaText(s, k) = FlattenSeq(Texts(s, k))
BY DEF Contract!DeltaText, Texts, TextFor, FlattenSeq, Contract!FlattenSeq

\* One more event appends what it carries for the part.
LEMMA DeltaTextAppend ==
  ASSUME NEW s, NEW t, NEW e, NEW k, Extends(t, s, e)
  PROVE  Contract!DeltaText(t, k) =
            IF Len(s) = 0 THEN TextFor(e, k)
                          ELSE Contract!DeltaText(s, k) \o TextFor(e, k)
<1>. DEFINE n == Len(s)
<1>. DEFINE q == Texts(s, k)
<1>. DEFINE p == Texts(t, k)
<1>1. n \in Nat /\ DOMAIN s = 1..n /\ DOMAIN t = 1..(n + 1)
  BY DEF Extends
<1>2. Len(q) = n /\ Len(p) = n + 1
  <2>1. q \in [1..n -> {q[i] : i \in 1..n}]
    BY <1>1 DEF Texts
  <2>2. p \in [1..(n + 1) -> {p[i] : i \in 1..(n + 1)}]
    BY <1>1 DEF Texts
  <2>. HIDE DEF q, p, n
  <2>3. n + 1 \in Nat
    BY <1>1
  <2>. QED BY <1>1, <2>1, <2>2, <2>3, FunctionLength
<1>3. p[n + 1] = TextFor(e, k) /\ \A i \in 1..n : p[i] = q[i]
  BY <1>1 DEF Texts, Extends
<1>4. /\ Contract!DeltaText(s, k) = FlattenSeq(q)
      /\ Contract!DeltaText(t, k) = FlattenSeq(p)
  BY DeltaTextIs
<1>. HIDE DEF q, p
<1>5. CASE n = 0
  <2>1. Len(p) = 1
    BY <1>2, <1>5
  <2>2. FlattenSeq(p) = p[1]
    BY <2>1, FlattenOne
  <2>. QED BY <1>3, <1>4, <1>5, <2>2
<1>6. CASE n # 0
  <2>. HIDE DEF n
  <2>0. n \in Nat \ {0}
    BY <1>1, <1>6
  <2>1. FlattenSeq(p) = FlattenSeq(q) \o p[n + 1]
    BY <1>2, <1>3, <2>0, FlattenAppend
  <2>. QED BY <1>3, <1>4, <1>6, <2>1 DEF n
<1>. QED BY <1>5, <1>6

-----------------------------------------------------------------------------
(* Increasing enumerations.                                                  *)

Increasing(q) == \A i, j \in DOMAIN q : i < j => q[i] < q[j]

\* Every finite set of naturals has one.
LEMMA IncreasingExists ==
  ASSUME NEW U, IsFiniteSet(U), U \subseteq Nat
  PROVE  \E q \in [1..Cardinality(U) -> U] : Increasing(q)
<1>. DEFINE Enumerable(n) ==
        \A S : IsFiniteSet(S) /\ S \subseteq Nat /\ Cardinality(S) = n =>
            \E q \in [1..n -> S] : Increasing(q)
<1>. DEFINE N == {n \in Nat : Enumerable(n)}
<1>1. 0 \in N
  <2>1. ASSUME NEW S, IsFiniteSet(S), Cardinality(S) = 0
        PROVE  \E q \in [1..0 -> S] : Increasing(q)
    <3>1. [i \in 1..0 |-> i] \in [1..0 -> S]
      OBVIOUS
    <3>2. Increasing([i \in 1..0 |-> i])
      BY DEF Increasing
    <3>. QED BY <3>1, <3>2
  <2>. QED BY <2>1
<1>2. ASSUME NEW n \in Nat, n \in N PROVE n + 1 \in N
  <2>1. ASSUME NEW S, IsFiniteSet(S), S \subseteq Nat, Cardinality(S) = n + 1
        PROVE  \E q \in [1..(n + 1) -> S] : Increasing(q)
    <3>1. S # {}
      BY <2>1, FS_EmptySet
    <3>2. PICK m \in S : \A y \in S : m <= y
      BY <2>1, <3>1, LeastNat
    <3>. DEFINE T == S \ {m}
    <3>3. IsFiniteSet(T) /\ T \subseteq Nat /\ Cardinality(T) = n
      <4>1. IsFiniteSet(T) /\ Cardinality(T) = Cardinality(S) - 1
        BY <2>1, FS_RemoveElement
      <4>. QED BY <2>1, <4>1
    <3>4. PICK p \in [1..n -> T] : Increasing(p)
      BY <1>2, <3>3
    <3>. DEFINE q == [i \in 1..(n + 1) |-> IF i = 1 THEN m ELSE p[i - 1]]
    <3>5. ASSUME NEW i \in 1..(n + 1), i # 1
          PROVE  q[i] = p[i - 1] /\ i - 1 \in 1..n /\ p[i - 1] \in T
      BY <3>5
    <3>6. q \in [1..(n + 1) -> S]
      BY <3>5
    <3>7. ASSUME NEW i \in 1..(n + 1), NEW j \in 1..(n + 1), i < j PROVE q[i] < q[j]
      <4>1. q[j] = p[j - 1] /\ j - 1 \in 1..n /\ p[j - 1] \in T
        BY <3>5, <3>7
      <4>2. CASE i = 1
        <5>1. q[i] = m
          BY <4>2
        <5>2. p[j - 1] \in Nat /\ m \in Nat /\ m <= p[j - 1] /\ m # p[j - 1]
          BY <2>1, <3>2, <4>1
        <5>. QED BY <4>1, <5>1, <5>2
      <4>3. CASE i # 1
        <5>1. q[i] = p[i - 1] /\ i - 1 \in 1..n
          BY <3>5, <4>3
        <5>2. i - 1 < j - 1
          BY <3>7
        <5>. QED BY <3>4, <4>1, <5>1, <5>2 DEF Increasing
      <4>. QED BY <4>2, <4>3
    <3>8. Increasing(q)
      BY <3>7 DEF Increasing
    <3>. QED BY <3>6, <3>8
  <2>2. Enumerable(n + 1)
    BY <2>1
  <2>. QED BY <2>2
<1>. HIDE DEF N
<1>3. \A n \in Nat : n \in N
  BY <1>1, <1>2, SetInduction
<1>4. Cardinality(U) \in Nat
  BY FS_CardinalityType
<1>5. Enumerable(Cardinality(U))
  BY <1>3, <1>4 DEF N
<1>. QED BY <1>5

\* InOrder lists the members of the set, and nothing else.
LEMMA InOrderMembers ==
  ASSUME NEW S, IsFiniteSet(S), S \subseteq Nat
  PROVE  InOrder(S) \in [1..Cardinality(S) -> S]
<1>1. \E q \in [1..Cardinality(S) -> S] :
          \A i, j \in DOMAIN q : i < j => q[i] < q[j]
  BY IncreasingExists DEF Increasing
<1>. QED BY <1>1 DEF InOrder

\* The contract's operators are the model's.
LEMMA SameOperators ==
  /\ \A S : Contract!Cardinality(S) = Cardinality(S)
  /\ \A f : Contract!Range(f) = Range(f)
  /\ \A s, t : Contract!IsPrefix(s, t) <=> IsPrefix(s, t)
  /\ \A s : Contract!Last(s) = s[Len(s)]
<1>1. \A S : Contract!Cardinality(S) = Cardinality(S)
  BY DEF Cardinality, Contract!Cardinality
<1>. QED BY <1>1 DEF Range, Contract!Range, IsPrefix, Contract!IsPrefix, Contract!Last

\* So are the increasing enumerations.
LEMMA SameOrder == \A S : Contract!InOrder(S) = InOrder(S)
BY SameOperators DEF InOrder, Contract!InOrder

-----------------------------------------------------------------------------
(* The reducer's accumulators are functions of what was delivered.           *)

IsPart(p) ==
    /\ p = [kind |-> p.kind, init |-> p.init, text |-> p.text, ended |-> p.ended]
    /\ p.text \in Seq(STRING) /\ p.ended \in BOOLEAN

IsReducer(r) ==
    /\ r = [started |-> r.started, ended |-> r.ended, provider |-> r.provider,
            parts |-> r.parts, finishes |-> r.finishes]
    /\ r.started \in BOOLEAN /\ r.ended \in BOOLEAN
    /\ \A k \in DOMAIN r.parts : IsPart(r.parts[k])

PartKeys(s) == {s[i].key : i \in Contract!Of(s, "part")}
Stopped(s, k) == \E n \in Contract!Of(s, "stop") : s[n].key = k

StartMirrored(r, s) == r.started <=> Len(s) > 0

PartsMirrored(r, s) ==
    /\ DOMAIN r.parts = PartKeys(s) /\ PartKeys(s) \subseteq Nat \X Nat
    /\ \A i \in Contract!Of(s, "part") :
          r.parts[s[i].key].kind = s[i].part /\ r.parts[s[i].key].init = s[i].init
    /\ \A k : Stopped(s, k) <=> k \in DOMAIN r.parts /\ r.parts[k].ended

TextsMirrored(r, s) == \A k \in PartKeys(s) : r.parts[k].text = Contract!DeltaText(s, k)

NoOtherText(s) == \A k : k \notin PartKeys(s) => Contract!DeltaText(s, k) = <<>>

EndMirrored(r, s) ==
    /\ r.ended <=> Contract!Of(s, "end") # {}
    /\ r.ended => r.finishes = s[Len(s)].finishes

\* A response names a candidate's finish once.
FinishesUnique(f) ==
    \A i, j \in DOMAIN f : f[i].candidate = f[j].candidate => i = j

Mirrors(r, s) ==
    /\ IsReducer(r) /\ IsList(s)
    /\ StartMirrored(r, s) /\ PartsMirrored(r, s) /\ TextsMirrored(r, s)
    /\ EndMirrored(r, s) /\ FinishesUnique(r.finishes)

Accepted(r, l, e, lim) == LimiterAccepts(l, e, lim) /\ ReducerAccepts(r, e)

\* What an accepted event looks like.
LEMMA AcceptedShape ==
  ASSUME NEW r, NEW l, NEW e, NEW lim, Accepted(r, l, e, lim)
  PROVE  /\ e.kind \in {"start", "part", "delta", "stop", "end"}
         /\ e.text \in Seq(STRING)
         /\ e.kind # "delta" => e.text = <<>>
         /\ e.kind \in {"part", "delta", "stop"} => e.key \in Nat \X Nat
         /\ e.kind # "end" => e.finishes = <<>>
         /\ FinishesUnique(e.finishes)
BY DEF Accepted, LimiterAccepts, ValidateEventShape, ValidUTF8, ValidateIndexes, FinishesUnique

\* The positions of a kind, after one more event.
LEMMA OfExtends ==
  ASSUME NEW s, NEW t, NEW e, Extends(t, s, e), NEW kind
  PROVE  /\ Contract!Of(t, kind) = Contract!Of(s, kind)
                                     \cup (IF e.kind = kind THEN {Len(s) + 1} ELSE {})
         /\ Contract!Of(s, kind) \subseteq 1..Len(s)
         /\ \A i \in Contract!Of(s, kind) : t[i] = s[i] /\ i <= Len(s) /\ i # Len(s) + 1
         /\ t[Len(s) + 1] = e /\ Len(s) + 1 = Len(t)
BY DEF Extends, Contract!Of

\* So the parts opened and stopped.
LEMMA KeysExtend ==
  ASSUME NEW s, NEW t, NEW e, Extends(t, s, e)
  PROVE  /\ PartKeys(t) = PartKeys(s) \cup (IF e.kind = "part" THEN {e.key} ELSE {})
         /\ \A k : Stopped(t, k) <=> Stopped(s, k) \/ (e.kind = "stop" /\ e.key = k)
<1>1. PartKeys(t) = PartKeys(s) \cup (IF e.kind = "part" THEN {e.key} ELSE {})
  BY OfExtends DEF PartKeys
<1>2. ASSUME NEW k
      PROVE  Stopped(t, k) <=> Stopped(s, k) \/ (e.kind = "stop" /\ e.key = k)
  BY OfExtends DEF Stopped
<1>. QED BY <1>1, <1>2

\* A part with another text, or ended.
LEMMA PartExcept ==
  ASSUME NEW p, IsPart(p), NEW v
  PROVE  /\ [p EXCEPT !.text = v] =
                [kind |-> p.kind, init |-> p.init, text |-> v, ended |-> p.ended]
         /\ [p EXCEPT !.ended = v] =
                [kind |-> p.kind, init |-> p.init, text |-> p.text, ended |-> v]
<1>1. PICK a, b, c, d : p = [kind |-> a, init |-> b, text |-> c, ended |-> d]
  BY DEF IsPart
<1>. QED BY <1>1

\* q is r with event e: what it opens, extends, ends, and what it leaves alone.
Applied(q, r, e) ==
    /\ IsReducer(q)
    /\ q.started <=> (r.started \/ e.kind = "start")
    /\ q.ended <=> (r.ended \/ e.kind = "end")
    /\ q.finishes = IF e.kind = "end" THEN e.finishes ELSE r.finishes
    /\ DOMAIN q.parts = DOMAIN r.parts \cup (IF e.kind = "part" THEN {e.key} ELSE {})
    /\ e.kind = "part" => q.parts[e.key] = [kind |-> e.part, init |-> e.init,
                                            text |-> <<>>, ended |-> FALSE]
    /\ e.kind \in {"delta", "stop"} =>
          /\ e.key \in DOMAIN r.parts
          /\ q.parts[e.key].kind = r.parts[e.key].kind
          /\ q.parts[e.key].init = r.parts[e.key].init
          /\ q.parts[e.key].text = IF e.kind = "delta" THEN r.parts[e.key].text \o e.text
                                                      ELSE r.parts[e.key].text
          /\ q.parts[e.key].ended <=> (r.parts[e.key].ended \/ e.kind = "stop")
    /\ \A k \in DOMAIN r.parts :
          (e.kind \in {"start", "end"} \/ k # e.key) => q.parts[k] = r.parts[k]

\* What an accepted event makes of the reducer.
LEMMA ReducerStep ==
  ASSUME NEW r, IsReducer(r), NEW l, NEW e, NEW lim, Accepted(r, l, e, lim),
         NEW q, q = ReducerApplies(r, e)
  PROVE  Applied(q, r, e)
<1>1. e.kind \in {"start", "part", "delta", "stop", "end"} /\ e.text \in Seq(STRING)
  BY AcceptedShape
<1>2. CASE e.kind = "start"
  <2>1. q = [r EXCEPT !.started = TRUE, !.provider = e.provider]
    BY <1>2 DEF ReducerApplies
  <2>. QED BY <1>2, <2>1 DEF IsReducer, Applied
<1>3. CASE e.kind = "end"
  <2>1. q = [r EXCEPT !.ended = TRUE, !.finishes = e.finishes]
    BY <1>3 DEF ReducerApplies
  <2>. QED BY <1>3, <2>1 DEF IsReducer, Applied
<1>4. ASSUME NEW part, IsPart(part), q = WithPart(r, e.key, part)
      PROVE  /\ IsReducer(q) /\ q.started = r.started /\ q.ended = r.ended
             /\ q.finishes = r.finishes /\ DOMAIN q.parts = DOMAIN r.parts \cup {e.key}
             /\ q.parts[e.key] = part
             /\ \A k \in DOMAIN r.parts : k # e.key => q.parts[k] = r.parts[k]
  BY <1>4 DEF IsReducer, WithPart, Put
<1>5. CASE e.kind = "part"
  <2>. DEFINE part == [kind |-> e.part, init |-> e.init, text |-> <<>>, ended |-> FALSE]
  <2>1. q = WithPart(r, e.key, part)
    BY <1>5 DEF ReducerApplies
  <2>2. IsPart(part)
    BY DEF IsPart
  <2>. HIDE DEF part
  <2>. QED BY <1>4, <1>5, <2>1, <2>2 DEF part, Applied
<1>6. CASE e.kind = "delta"
  <2>. DEFINE old == r.parts[e.key]
  <2>. DEFINE part == [old EXCEPT !.text = old.text \o e.text]
  <2>1. q = WithPart(r, e.key, part) /\ e.key \in DOMAIN r.parts
    BY <1>6 DEF ReducerApplies, Accepted, ReducerAccepts, OpenPart
  <2>2. IsPart(old)
    BY <2>1 DEF IsReducer
  <2>. HIDE DEF old
  <2>3. /\ IsPart(part) /\ part.kind = old.kind /\ part.init = old.init
        /\ part.text = old.text \o e.text /\ part.ended = old.ended
    <3>. DEFINE v == old.text \o e.text
    <3>1. v \in Seq(STRING)
      BY <1>1, <2>2 DEF IsPart
    <3>. HIDE DEF v
    <3>2. part = [kind |-> old.kind, init |-> old.init, text |-> v, ended |-> old.ended]
      BY <2>2, PartExcept DEF IsPart, v
    <3>3. old.ended \in BOOLEAN
      BY <2>2 DEF IsPart
    <3>. HIDE DEF part
    <3>. QED BY <3>1, <3>2, <3>3 DEF IsPart, v
  <2>. HIDE DEF part
  <2>4. DOMAIN r.parts \cup {e.key} = DOMAIN r.parts
    BY <2>1
  <2>. QED BY <1>4, <1>6, <2>1, <2>3, <2>4 DEF old, Applied
<1>7. CASE e.kind = "stop"
  <2>. DEFINE old == r.parts[e.key]
  <2>. DEFINE part == [old EXCEPT !.ended = TRUE]
  <2>1. q = WithPart(r, e.key, part) /\ e.key \in DOMAIN r.parts
    BY <1>7 DEF ReducerApplies, Accepted, ReducerAccepts, OpenPart
  <2>2. IsPart(old)
    BY <2>1 DEF IsReducer
  <2>. HIDE DEF old
  <2>3. /\ IsPart(part) /\ part.kind = old.kind /\ part.init = old.init
        /\ part.text = old.text /\ part.ended
    <3>1. part = [kind |-> old.kind, init |-> old.init, text |-> old.text, ended |-> TRUE]
      BY <2>2, PartExcept DEF IsPart
    <3>2. old.text \in Seq(STRING)
      BY <2>2 DEF IsPart
    <3>. HIDE DEF part
    <3>. QED BY <3>1, <3>2 DEF IsPart
  <2>. HIDE DEF part
  <2>4. DOMAIN r.parts \cup {e.key} = DOMAIN r.parts
    BY <2>1
  <2>. QED BY <1>4, <1>7, <2>1, <2>3, <2>4 DEF old, Applied
<1>. QED BY <1>1, <1>2, <1>3, <1>5, <1>6, <1>7

\* The first event is the start of the response, and the only one.
LEMMA StartFirst ==
  ASSUME NEW r, NEW s, Mirrors(r, s), NEW l, NEW e, NEW lim, Accepted(r, l, e, lim)
  PROVE  /\ e.kind = "start" <=> Len(s) = 0
         /\ ~r.ended /\ Contract!Of(s, "end") = {}
<1>1. Len(s) \in Nat
  BY ListIndexes DEF Mirrors
<1>2. r.started <=> Len(s) > 0
  BY DEF Mirrors, StartMirrored
<1>3. r.ended <=> Contract!Of(s, "end") # {}
  BY DEF Mirrors, EndMirrored
<1>4. ~r.ended /\ (r.started <=> e.kind # "start")
  BY DEF Accepted, ReducerAccepts
<1>. QED BY <1>1, <1>2, <1>3, <1>4

\* The accumulated texts follow the deltas.
LEMMA TextsStep ==
  ASSUME NEW r, NEW s, Mirrors(r, s), NoOtherText(s),
         NEW l, NEW e, NEW lim, Accepted(r, l, e, lim),
         NEW q, q = ReducerApplies(r, e), NEW t, Extends(t, s, e)
  PROVE  TextsMirrored(q, t) /\ NoOtherText(t)
<1>0. Applied(q, r, e)
  <2>1. IsReducer(r)
    BY DEF Mirrors
  <2>. QED BY <2>1, ReducerStep
<1>1. /\ e.text \in Seq(STRING) /\ e.kind # "delta" => e.text = <<>>
      /\ Len(s) \in Nat
  BY AcceptedShape, ListIndexes DEF Mirrors
<1>2. /\ PartKeys(t) = PartKeys(s) \cup (IF e.kind = "part" THEN {e.key} ELSE {})
      /\ DOMAIN r.parts = PartKeys(s)
  BY KeysExtend DEF Mirrors, PartsMirrored
<1>3. Len(s) = 0 => PartKeys(s) = {}
  BY OfExtends DEF PartKeys
<1>4. ASSUME NEW k, k \notin PartKeys(s)
      PROVE  Contract!DeltaText(t, k) = <<>>
  <2>1. TextFor(e, k) = <<>>
    <3>1. CASE e.kind = "delta" /\ e.key = k
      BY <1>2, <1>4, <3>1 DEF Accepted, ReducerAccepts, OpenPart
    <3>. QED BY <3>1 DEF TextFor
  <2>2. Contract!DeltaText(s, k) = <<>>
    BY <1>4 DEF NoOtherText
  <2>3. <<>> \o <<>> = <<>>
    OBVIOUS
  <2>. QED BY <2>1, <2>2, <2>3, DeltaTextAppend
<1>5. ASSUME NEW k \in PartKeys(s)
      PROVE  q.parts[k].text = Contract!DeltaText(t, k)
  <2>1. Contract!DeltaText(t, k) = Contract!DeltaText(s, k) \o TextFor(e, k)
    BY <1>3, DeltaTextAppend
  <2>2. /\ r.parts[k].text = Contract!DeltaText(s, k)
        /\ r.parts[k].text \in Seq(STRING)
    BY <1>2 DEF Mirrors, TextsMirrored, IsReducer, IsPart
  <2>3. CASE e.kind = "delta" /\ e.key = k
    <3>1. q.parts[k].text = r.parts[k].text \o e.text
      BY <2>3, <1>0 DEF Applied
    <3>2. TextFor(e, k) = e.text
      BY <2>3 DEF TextFor
    <3>. QED BY <2>1, <2>2, <3>1, <3>2
  <2>4. CASE ~ (e.kind = "delta" /\ e.key = k)
    <3>1. TextFor(e, k) = <<>>
      BY <2>4 DEF TextFor
    <3>2. r.parts[k].text \o <<>> = r.parts[k].text
      BY <2>2, ConcatEmptySeq
    <3>3. q.parts[k].text = r.parts[k].text
      <4>1. CASE e.kind \in {"start", "end"} \/ k # e.key
        BY <1>2, <4>1, <1>0 DEF Applied
      <4>2. CASE e.kind = "stop" /\ k = e.key
        BY <4>2, <1>0 DEF Applied
      <4>3. CASE e.kind = "part" /\ k = e.key
        BY <1>2, <4>3 DEF Accepted, ReducerAccepts
      <4>. QED BY <2>4, <4>1, <4>2, <4>3, AcceptedShape
    <3>. QED BY <2>1, <2>2, <3>1, <3>2, <3>3
  <2>. QED BY <2>3, <2>4
<1>6. ASSUME NEW k \in PartKeys(t), k \notin PartKeys(s)
      PROVE  q.parts[k].text = Contract!DeltaText(t, k)
  <2>1. e.kind = "part" /\ k = e.key
    BY <1>2, <1>6
  <2>2. q.parts[k].text = <<>>
    BY <2>1, <1>0 DEF Applied
  <2>. QED BY <1>4, <1>6, <2>2
<1>7. TextsMirrored(q, t)
  BY <1>5, <1>6 DEF TextsMirrored
<1>8. NoOtherText(t)
  BY <1>2, <1>4 DEF NoOtherText
<1>. QED BY <1>7, <1>8

\* The accumulators stay functions of what was delivered.
LEMMA MirrorsStep ==
  ASSUME NEW r, NEW s, Mirrors(r, s), NoOtherText(s),
         NEW l, NEW e, NEW lim, Accepted(r, l, e, lim),
         NEW q, q = ReducerApplies(r, e), NEW t, Extends(t, s, e), IsList(t)
  PROVE  Mirrors(q, t) /\ NoOtherText(t)
<1>0. Applied(q, r, e)
  <2>1. IsReducer(r)
    BY DEF Mirrors
  <2>. QED BY <2>1, ReducerStep
<1>1. Len(s) \in Nat /\ Len(t) = Len(s) + 1 /\ t[Len(t)] = e
  BY DEF Extends
<1>2. e.kind \in {"start", "part", "delta", "stop", "end"}
  BY AcceptedShape
<1>3. /\ PartKeys(t) = PartKeys(s) \cup (IF e.kind = "part" THEN {e.key} ELSE {})
      /\ \A k : Stopped(t, k) <=> Stopped(s, k) \/ (e.kind = "stop" /\ e.key = k)
      /\ DOMAIN r.parts = PartKeys(s) /\ PartKeys(s) \subseteq Nat \X Nat
  BY KeysExtend DEF Mirrors, PartsMirrored
<1>4. IsReducer(q)
  BY <1>0 DEF Applied
<1>5. StartMirrored(q, t)
  <2>1. q.started <=> (r.started \/ e.kind = "start")
    BY <1>0 DEF Applied
  <2>2. r.started <=> Len(s) > 0
    BY DEF Mirrors, StartMirrored
  <2>. QED BY <1>1, <2>1, <2>2, StartFirst DEF StartMirrored
<1>6. DOMAIN q.parts = PartKeys(t) /\ PartKeys(t) \subseteq Nat \X Nat
  <2>1. DOMAIN q.parts = DOMAIN r.parts \cup (IF e.kind = "part" THEN {e.key} ELSE {})
    BY <1>0 DEF Applied
  <2>2. e.kind = "part" => e.key \in Nat \X Nat
    BY AcceptedShape
  <2>. QED BY <1>3, <2>1, <2>2
<1>7. ASSUME NEW i \in Contract!Of(t, "part")
      PROVE  q.parts[t[i].key].kind = t[i].part /\ q.parts[t[i].key].init = t[i].init
  <2>1. CASE i \in Contract!Of(s, "part")
    <3>1. t[i] = s[i] /\ s[i].key \in PartKeys(s)
      BY <2>1, OfExtends DEF PartKeys
    <3>2. r.parts[s[i].key].kind = s[i].part /\ r.parts[s[i].key].init = s[i].init
      BY <2>1 DEF Mirrors, PartsMirrored
    <3>3. CASE e.kind \in {"start", "end"} \/ s[i].key # e.key
      BY <1>3, <3>1, <3>2, <3>3, <1>0 DEF Applied
    <3>4. CASE e.kind \in {"delta", "stop"} /\ s[i].key = e.key
      BY <1>3, <3>1, <3>2, <3>4, <1>0 DEF Applied
    <3>5. CASE e.kind = "part" /\ s[i].key = e.key
      BY <1>3, <3>1, <3>5 DEF Accepted, ReducerAccepts
    <3>. QED BY <1>2, <3>3, <3>4, <3>5
  <2>2. CASE i \notin Contract!Of(s, "part")
    <3>1. e.kind = "part" /\ t[i] = e
      BY <2>2, OfExtends
    <3>. QED BY <3>1, <1>0 DEF Applied
  <2>. QED BY <2>1, <2>2
<1>8. ASSUME NEW k PROVE Stopped(t, k) <=> k \in DOMAIN q.parts /\ q.parts[k].ended
  <2>1. Stopped(s, k) <=> k \in PartKeys(s) /\ r.parts[k].ended
    BY <1>3 DEF Mirrors, PartsMirrored
  <2>2. e.kind = "stop" => e.key \in PartKeys(s)
    BY <1>3 DEF Accepted, ReducerAccepts, OpenPart
  <2>3. CASE k \in PartKeys(s)
    <3>1. CASE e.kind \in {"start", "end"} \/ k # e.key
      BY <1>3, <1>6, <2>1, <2>3, <3>1, <1>0 DEF Applied
    <3>2. CASE e.kind \in {"delta", "stop"} /\ k = e.key
      <4>1. q.parts[k].ended <=> (r.parts[k].ended \/ e.kind = "stop")
        BY <3>2, <1>0 DEF Applied
      <4>. QED BY <1>3, <1>6, <2>1, <2>3, <3>2, <4>1
    <3>3. CASE e.kind = "part" /\ k = e.key
      BY <1>3, <2>3, <3>3 DEF Accepted, ReducerAccepts
    <3>. QED BY <1>2, <3>1, <3>2, <3>3
  <2>4. CASE k \notin PartKeys(s) /\ k \in PartKeys(t)
    <3>1. e.kind = "part" /\ k = e.key
      BY <1>3, <2>4
    <3>2. ~q.parts[k].ended
      BY <3>1, <1>0 DEF Applied
    <3>. QED BY <1>3, <2>1, <2>4, <3>1, <3>2
  <2>5. CASE k \notin PartKeys(t)
    BY <1>3, <1>6, <2>1, <2>2, <2>5
  <2>. QED BY <2>3, <2>4, <2>5
<1>9. EndMirrored(q, t)
  <2>1. q.ended <=> e.kind = "end"
    BY <1>0, StartFirst DEF Applied
  <2>2. q.ended => q.finishes = e.finishes
    BY <2>1, <1>0 DEF Applied
  <2>3. Contract!Of(t, "end") = IF e.kind = "end" THEN {Len(s) + 1} ELSE {}
    BY OfExtends, StartFirst
  <2>. QED BY <1>1, <2>1, <2>2, <2>3 DEF EndMirrored
<1>10. FinishesUnique(q.finishes)
  <2>1. q.finishes = IF e.kind = "end" THEN e.finishes ELSE r.finishes
    BY <1>0 DEF Applied
  <2>2. FinishesUnique(r.finishes) /\ FinishesUnique(e.finishes)
    BY AcceptedShape DEF Mirrors
  <2>. QED BY <2>1, <2>2
<1>11. TextsMirrored(q, t) /\ NoOtherText(t)
  BY TextsStep
<1>12. PartsMirrored(q, t)
  BY <1>6, <1>7, <1>8 DEF PartsMirrored
<1>. QED BY <1>4, <1>5, <1>9, <1>10, <1>11, <1>12 DEF Mirrors

-----------------------------------------------------------------------------
(* What is delivered stays grammatical.                                      *)

StartOnly(s) == \A i \in DOMAIN s : s[i].kind = "start" <=> i = 1

OneOpening(s) == \A i, j \in Contract!Of(s, "part") : s[i].key = s[j].key => i = j

WithinPart(s) ==
    \A i \in Contract!Of(s, "delta") \cup Contract!Of(s, "stop") :
        /\ \E j \in Contract!Of(s, "part") :
              /\ j < i /\ s[j].key = s[i].key
              /\ s[i].kind = "delta" => s[j].part = s[i].part
        /\ ~\E j \in Contract!Of(s, "stop") : j < i /\ s[j].key = s[i].key

WholeArguments(s) ==
    \A i \in Contract!Of(s, "stop") :
        Contract!PartContent(s, s[i].key).kind = "tool" =>
            Contract!IsObject(Contract!PartContent(s, s[i].key).text)

EndLast(s) ==
    \A i \in Contract!Of(s, "end") :
        /\ i = Len(s)
        /\ \A j \in Contract!Of(s, "part") :
              \E n \in Contract!Of(s, "stop") : s[n].key = s[j].key

\* The contract's grammar by parts.
LEMMA GrammarParts ==
  ASSUME NEW s
  PROVE  Contract!Grammatical(s) <=>
            /\ StartOnly(s) /\ OneOpening(s) /\ WithinPart(s)
            /\ WholeArguments(s) /\ EndLast(s)
BY DEF Contract!Grammatical, StartOnly, OneOpening, WithinPart, WholeArguments, EndLast

\* The content of a part is what its accumulator holds.
LEMMA PartContentIs ==
  ASSUME NEW r, NEW s, Mirrors(r, s), NEW k \in PartKeys(s)
  PROVE  Contract!PartContent(s, k) =
            [kind |-> r.parts[k].kind, text |-> r.parts[k].init \o r.parts[k].text]
<1>. DEFINE i == CHOOSE i \in Contract!Of(s, "part") : s[i].key = k
<1>1. i \in Contract!Of(s, "part") /\ s[i].key = k
  BY DEF PartKeys
<1>2. Contract!Opening(s, k) = s[i]
  BY DEF Contract!Opening
<1>. HIDE DEF i
<1>3. r.parts[k].kind = s[i].part /\ r.parts[k].init = s[i].init
  BY <1>1 DEF Mirrors, PartsMirrored
<1>4. r.parts[k].text = Contract!DeltaText(s, k)
  BY DEF Mirrors, TextsMirrored
<1>. QED BY <1>2, <1>3, <1>4 DEF Contract!PartContent

\* An ended tool call has whole arguments.
Completed(r) ==
    \A k \in DOMAIN r.parts :
        r.parts[k].ended /\ r.parts[k].kind = "tool" =>
            r.parts[k].init \o r.parts[k].text = <<"{", "}">>

\* It stays so: an ended part no longer changes.
LEMMA CompletedStep ==
  ASSUME NEW r, IsReducer(r), Completed(r), NEW l, NEW e, NEW lim, Accepted(r, l, e, lim),
         NEW q, q = ReducerApplies(r, e)
  PROVE  Completed(q)
<1>1. Applied(q, r, e) /\ e.kind \in {"start", "part", "delta", "stop", "end"}
  BY ReducerStep, AcceptedShape
<1>. SUFFICES ASSUME NEW k \in DOMAIN q.parts, q.parts[k].ended, q.parts[k].kind = "tool"
              PROVE  q.parts[k].init \o q.parts[k].text = <<"{", "}">>
  BY DEF Completed
<1>2. CASE k \in DOMAIN r.parts /\ (e.kind \in {"start", "end"} \/ k # e.key)
  BY <1>1, <1>2 DEF Completed, Applied
<1>3. CASE e.kind = "part" /\ k = e.key
  <2>1. q.parts[k].ended = FALSE
    BY <1>1, <1>3 DEF Applied
  <2>. QED BY <2>1
<1>4. CASE e.kind = "delta" /\ k = e.key
  <2>1. ~r.parts[k].ended
    BY <1>4 DEF Accepted, ReducerAccepts, OpenPart
  <2>2. ~q.parts[k].ended
    BY <1>1, <1>4, <2>1 DEF Applied
  <2>. QED BY <2>2
<1>5. CASE e.kind = "stop" /\ k = e.key
  <2>1. Completes(r.parts[k])
    BY <1>5 DEF Accepted, ReducerAccepts
  <2>2. /\ q.parts[k].kind = r.parts[k].kind /\ q.parts[k].init = r.parts[k].init
        /\ q.parts[k].text = r.parts[k].text
    BY <1>1, <1>5 DEF Applied
  <2>3. CASE IsJSONObject(r.parts[k].text) /\ r.parts[k].init = <<>>
    <3>1. q.parts[k].text = <<"{", "}">> /\ q.parts[k].init = <<>>
      BY <2>2, <2>3 DEF IsJSONObject
    <3>2. <<>> \o <<"{", "}">> = <<"{", "}">>
      OBVIOUS
    <3>. QED BY <3>1, <3>2
  <2>4. CASE IsJSONObject(r.parts[k].init) /\ r.parts[k].text = <<>>
    <3>1. q.parts[k].init = <<"{", "}">> /\ q.parts[k].text = <<>>
      BY <2>2, <2>4 DEF IsJSONObject
    <3>2. <<"{", "}">> \o <<>> = <<"{", "}">>
      OBVIOUS
    <3>. QED BY <3>1, <3>2
  <2>. QED BY <2>1, <2>2, <2>3, <2>4 DEF Completes
<1>6. k \in DOMAIN r.parts \/ (e.kind = "part" /\ k = e.key)
  BY <1>1 DEF Applied
<1>. QED BY <1>1, <1>2, <1>3, <1>4, <1>5, <1>6

\* Every ended call of what was delivered then has whole arguments.
LEMMA MirrorsWhole ==
  ASSUME NEW r, NEW s, Mirrors(r, s), Completed(r)
  PROVE  WholeArguments(s)
<1>. SUFFICES ASSUME NEW i \in Contract!Of(s, "stop"),
                     Contract!PartContent(s, s[i].key).kind = "tool"
              PROVE  Contract!IsObject(Contract!PartContent(s, s[i].key).text)
  BY DEF WholeArguments
<1>. DEFINE k == s[i].key
<1>1. Stopped(s, k)
  BY DEF Stopped
<1>0. /\ Contract!PartContent(s, k).kind = "tool"
      /\ Contract!IsObject(Contract!PartContent(s, k).text) =>
            Contract!IsObject(Contract!PartContent(s, s[i].key).text)
  OBVIOUS
<1>. HIDE DEF k
<1>2. k \in DOMAIN r.parts /\ r.parts[k].ended /\ k \in PartKeys(s)
  BY <1>1 DEF Mirrors, PartsMirrored
<1>3. Contract!PartContent(s, k) =
          [kind |-> r.parts[k].kind, text |-> r.parts[k].init \o r.parts[k].text]
  BY <1>2, PartContentIs
<1>4. r.parts[k].kind = "tool"
  BY <1>0, <1>3
<1>5. r.parts[k].init \o r.parts[k].text = <<"{", "}">>
  BY <1>2, <1>4 DEF Completed
<1>6. Contract!PartContent(s, k).text = <<"{", "}">>
  <2>. DEFINE x == r.parts[k].init \o r.parts[k].text
  <2>1. x = <<"{", "}">>
    BY <1>5
  <2>2. Contract!PartContent(s, k) = [kind |-> r.parts[k].kind, text |-> x]
    BY <1>3
  <2>. HIDE DEF x
  <2>3. Contract!PartContent(s, k).text = x
    BY <2>2
  <2>. QED BY <2>1, <2>3
<1>7. Contract!IsObject(Contract!PartContent(s, k).text)
  BY <1>6 DEF Contract!IsObject
<1>. QED BY <1>0, <1>7

\* An accepted event extends a grammatical sequence to one.
LEMMA GrammarStep ==
  ASSUME NEW r, NEW s, Mirrors(r, s), Completed(r), NoOtherText(s), Contract!Grammatical(s),
         NEW l, NEW e, NEW lim, Accepted(r, l, e, lim),
         NEW q, q = ReducerApplies(r, e), NEW t, Extends(t, s, e), IsList(t)
  PROVE  Contract!Grammatical(t)
<1>1. StartOnly(s) /\ OneOpening(s) /\ WithinPart(s) /\ EndLast(s)
  BY GrammarParts
<1>2. /\ Len(s) \in Nat /\ DOMAIN s = 1..Len(s) /\ DOMAIN t = 1..(Len(s) + 1)
      /\ \A i \in 1..Len(s) : t[i] = s[i]
  BY DEF Extends
<1>3. StartOnly(t)
  <2>1. e.kind = "start" <=> Len(s) + 1 = 1
    BY <1>2, StartFirst
  <2>. QED BY <1>1, <1>2, <2>1, OfExtends DEF StartOnly
<1>4. OneOpening(t)
  <2>1. e.kind = "part" => \A i \in Contract!Of(s, "part") : s[i].key # e.key
    <3>1. e.kind = "part" => e.key \notin PartKeys(s)
      BY DEF Accepted, ReducerAccepts, Mirrors, PartsMirrored
    <3>. QED BY <3>1 DEF PartKeys
  <2>. QED BY <1>1, <2>1, OfExtends DEF OneOpening
<1>5. WithinPart(t)
  <2>. SUFFICES ASSUME NEW i \in Contract!Of(t, "delta") \cup Contract!Of(t, "stop")
                PROVE  /\ \E j \in Contract!Of(t, "part") :
                              /\ j < i /\ t[j].key = t[i].key
                              /\ t[i].kind = "delta" => t[j].part = t[i].part
                       /\ ~\E j \in Contract!Of(t, "stop") : j < i /\ t[j].key = t[i].key
    BY DEF WithinPart
  <2>1. CASE i \in Contract!Of(s, "delta") \cup Contract!Of(s, "stop")
    <3>1. i <= Len(s) /\ t[i] = s[i] /\ i \in Nat
      BY <1>2, <2>1, OfExtends
    <3>2. PICK j \in Contract!Of(s, "part") :
              /\ j < i /\ s[j].key = s[i].key
              /\ s[i].kind = "delta" => s[j].part = s[i].part
      BY <1>1, <2>1 DEF WithinPart
    <3>3. j \in Contract!Of(t, "part") /\ t[j] = s[j]
      BY OfExtends
    <3>4. ASSUME NEW n \in Contract!Of(t, "stop"), n < i, t[n].key = t[i].key
          PROVE  FALSE
      <4>1. n \in Contract!Of(s, "stop") /\ t[n] = s[n]
        BY <1>2, <3>1, <3>4, OfExtends
      <4>. QED BY <1>1, <2>1, <3>1, <3>4, <4>1 DEF WithinPart
    <3>. QED BY <3>1, <3>2, <3>3, <3>4
  <2>2. CASE i \notin Contract!Of(s, "delta") \cup Contract!Of(s, "stop")
    <3>1. i = Len(s) + 1 /\ t[i] = e /\ e.kind \in {"delta", "stop"}
      BY <2>2, OfExtends
    <3>2. /\ e.key \in PartKeys(s) /\ ~r.parts[e.key].ended
          /\ e.kind = "delta" => r.parts[e.key].kind = e.part
      BY <3>1 DEF Accepted, ReducerAccepts, OpenPart, Mirrors, PartsMirrored
    <3>3. PICK j \in Contract!Of(s, "part") : s[j].key = e.key
      BY <3>2 DEF PartKeys
    <3>4. e.kind = "delta" => s[j].part = e.part
      BY <3>2, <3>3 DEF Mirrors, PartsMirrored
    <3>5. j \in Contract!Of(t, "part") /\ t[j] = s[j] /\ j < i
      BY <1>2, <3>1, OfExtends
    <3>6. ~Stopped(s, e.key)
      BY <3>2 DEF Mirrors, PartsMirrored
    <3>7. ASSUME NEW n \in Contract!Of(t, "stop"), n < i, t[n].key = t[i].key
          PROVE  FALSE
      <4>1. n \in Contract!Of(s, "stop") /\ t[n] = s[n]
        BY <1>2, <3>1, <3>7, OfExtends
      <4>. QED BY <3>1, <3>6, <3>7, <4>1 DEF Stopped
    <3>. QED BY <3>1, <3>3, <3>4, <3>5, <3>7
  <2>. QED BY <2>1, <2>2
<1>6. WholeArguments(t)
  <2>1. Mirrors(q, t)
    BY MirrorsStep
  <2>2. Completed(q)
    <3>1. IsReducer(r)
      BY DEF Mirrors
    <3>. QED BY <3>1, CompletedStep
  <2>. QED BY <2>1, <2>2, MirrorsWhole
<1>7. EndLast(t)
  <2>. SUFFICES ASSUME NEW i \in Contract!Of(t, "end")
                PROVE  /\ i = Len(t)
                       /\ \A j \in Contract!Of(t, "part") :
                             \E n \in Contract!Of(t, "stop") : t[n].key = t[j].key
    BY DEF EndLast
  <2>1. i = Len(t) /\ e.kind = "end"
    <3>1. Contract!Of(s, "end") = {}
      BY StartFirst
    <3>. QED BY <3>1, OfExtends
  <2>2. ASSUME NEW j \in Contract!Of(t, "part")
        PROVE  \E n \in Contract!Of(t, "stop") : t[n].key = t[j].key
    <3>1. j \in Contract!Of(s, "part") /\ t[j] = s[j]
      BY <2>1, OfExtends
    <3>2. s[j].key \in DOMAIN r.parts
      BY <3>1 DEF Mirrors, PartsMirrored, PartKeys
    <3>3. r.parts[s[j].key].ended
      BY <2>1, <3>2 DEF Accepted, ReducerAccepts
    <3>4. Stopped(s, s[j].key)
      BY <3>2, <3>3 DEF Mirrors, PartsMirrored
    <3>5. PICK n \in Contract!Of(s, "stop") : s[n].key = s[j].key
      BY <3>4 DEF Stopped
    <3>6. n \in Contract!Of(t, "stop") /\ t[n] = s[n]
      BY OfExtends
    <3>. QED BY <3>1, <3>5, <3>6
  <2>. QED BY <2>1, <2>2
<1>. QED BY <1>3, <1>4, <1>5, <1>6, <1>7, GrammarParts

-----------------------------------------------------------------------------
(* What is delivered stays within the limits.                                *)

IsLimiter(l) ==
    DOMAIN l = {"events", "turnBytes", "metadata", "tools", "candidates", "parts"}

ToolParts(s) == {i \in Contract!Of(s, "part") : s[i].part = "tool"}

FinishedBy(e) == {f.candidate : f \in Range(e.finishes)}
Finished(s) == UNION {FinishedBy(s[i]) : i \in Contract!Of(s, "end")}

\* The limiter's counters are the counts of what was delivered.
Counts(l, s) ==
    /\ IsLimiter(l)
    /\ l.events = Len(s)
    /\ l.parts = PartKeys(s)
    /\ l.candidates = {k[1] : k \in PartKeys(s)} \cup Finished(s)
    /\ l.tools = Cardinality(ToolParts(s))

\* q is l with event e counted.
Counted(q, l, e) ==
    /\ IsLimiter(q)
    /\ q.events = l.events + 1
    /\ q.parts = Named(l, e).parts /\ q.candidates = Named(l, e).candidates
    /\ q.tools = Named(l, e).tools
    /\ q.parts = l.parts \cup (IF e.kind = "part" THEN {e.key} ELSE {})
    /\ q.candidates = l.candidates \cup (IF e.kind = "part" THEN {e.key[1]} ELSE {})
                                   \cup FinishedBy(e)
    /\ q.tools = IF e.kind = "part" /\ e.part = "tool" THEN l.tools + 1 ELSE l.tools

\* What counting an event makes of the limiter.
LEMMA LimiterStep ==
  ASSUME NEW l, IsLimiter(l), NEW e, NEW q, q = LimiterCounts(l, e)
  PROVE  Counted(q, l, e)
<1>. DEFINE n == Named(l, e)
<1>1. /\ IsLimiter(n) /\ n.events = l.events
      /\ n.parts = l.parts \cup (IF e.kind = "part" THEN {e.key} ELSE {})
  BY DEF Named, IsLimiter
<1>2. n.candidates = l.candidates \cup (IF e.kind = "part" THEN {e.key[1]} ELSE {})
                                  \cup FinishedBy(e)
  BY DEF Named, IsLimiter, FinishedBy
<1>3. n.tools = IF e.kind = "part" /\ e.part = "tool" THEN l.tools + 1 ELSE l.tools
  BY DEF Named, IsLimiter
<1>. HIDE DEF n
<1>4. q = [n EXCEPT !.events = @ + 1, !.turnBytes = @ + MeasureEventFrame(e)]
  BY DEF LimiterCounts, n
<1>5. /\ IsLimiter(q) /\ q.events = n.events + 1 /\ q.parts = n.parts
      /\ q.candidates = n.candidates /\ q.tools = n.tools
  BY <1>1, <1>4 DEF IsLimiter
<1>. QED BY <1>1, <1>2, <1>3, <1>5 DEF n, Counted

\* What was counted before and after one more event.
LEMMA CountsStep ==
  ASSUME NEW r, NEW s, Mirrors(r, s), NEW l, Counts(l, s),
         NEW e, NEW lim, Accepted(r, l, e, lim),
         NEW q, q = LimiterCounts(l, e), NEW t, Extends(t, s, e)
  PROVE  Counts(q, t)
<1>1. /\ IsLimiter(q) /\ q.events = l.events + 1
      /\ q.parts = l.parts \cup (IF e.kind = "part" THEN {e.key} ELSE {})
      /\ q.candidates = l.candidates \cup (IF e.kind = "part" THEN {e.key[1]} ELSE {})
                                     \cup FinishedBy(e)
      /\ q.tools = IF e.kind = "part" /\ e.part = "tool" THEN l.tools + 1 ELSE l.tools
  <2>1. IsLimiter(l)
    BY DEF Counts
  <2>2. Counted(q, l, e)
    BY <2>1, LimiterStep
  <2>. QED BY <2>2 DEF Counted
<1>2. PartKeys(t) = PartKeys(s) \cup (IF e.kind = "part" THEN {e.key} ELSE {})
  BY KeysExtend
<1>3. q.parts = PartKeys(t)
  BY <1>1, <1>2 DEF Counts
<1>4. {k[1] : k \in PartKeys(t)} =
          {k[1] : k \in PartKeys(s)} \cup (IF e.kind = "part" THEN {e.key[1]} ELSE {})
  BY <1>2
<1>5. Finished(t) = Finished(s) \cup FinishedBy(e)
  <2>1. Contract!Of(s, "end") = {} /\ Finished(s) = {}
    BY StartFirst DEF Finished
  <2>2. CASE e.kind = "end"
    <3>1. Contract!Of(t, "end") = {Len(s) + 1} /\ t[Len(s) + 1] = e
      BY <2>1, <2>2, OfExtends
    <3>. QED BY <2>1, <3>1 DEF Finished
  <2>3. CASE e.kind # "end"
    <3>1. Contract!Of(t, "end") = {}
      BY <2>1, <2>3, OfExtends
    <3>2. FinishedBy(e) = {}
      BY <2>3, AcceptedShape DEF FinishedBy, Range
    <3>. QED BY <2>1, <3>1, <3>2 DEF Finished
  <2>. QED BY <2>2, <2>3
<1>6. q.candidates = {k[1] : k \in PartKeys(t)} \cup Finished(t)
  BY <1>1, <1>4, <1>5 DEF Counts
<1>7. q.tools = Cardinality(ToolParts(t))
  <2>1. ToolParts(t) = ToolParts(s) \cup (IF e.kind = "part" /\ e.part = "tool"
                                            THEN {Len(s) + 1} ELSE {})
    BY OfExtends DEF ToolParts
  <2>2. IsFiniteSet(ToolParts(s)) /\ Len(s) + 1 \notin ToolParts(s)
    <3>1. ToolParts(s) \subseteq 1..Len(s) /\ Len(s) + 1 \notin ToolParts(s) /\ Len(s) \in Nat
      BY OfExtends, ListIndexes DEF ToolParts, Mirrors
    <3>2. IsFiniteSet(1..Len(s))
      BY <3>1, FS_Interval
    <3>. QED BY <3>1, <3>2, FS_Subset
  <2>3. Cardinality(ToolParts(s) \cup {Len(s) + 1}) = Cardinality(ToolParts(s)) + 1
    BY <2>2, FS_AddElement
  <2>. QED BY <1>1, <2>1, <2>3 DEF Counts
<1>8. q.events = Len(t)
  BY <1>1 DEF Counts, Extends
<1>. QED BY <1>1, <1>3, <1>6, <1>7, <1>8 DEF Counts

\* An accepted event leaves the sequence within the limits.
LEMMA BoundedStep ==
  ASSUME NEW r, NEW s, Mirrors(r, s), NEW l, Counts(l, s),
         limits \in [LimitFields -> Int],
         NEW e, Accepted(r, l, e, limits), NEW t, Extends(t, s, e)
  PROVE  Contract!Bounded(t)
<1>. DEFINE q == LimiterCounts(l, e)
<1>1. Counts(q, t)
  BY CountsStep
<1>2. /\ q.parts = Named(l, e).parts /\ q.candidates = Named(l, e).candidates
      /\ q.tools = Named(l, e).tools
  <2>1. IsLimiter(l)
    BY DEF Counts
  <2>2. Counted(q, l, e)
    BY <2>1, LimiterStep
  <2>. QED BY <2>2 DEF Counted
<1>. HIDE DEF q
<1>3. /\ q.tools <= limits.tools
      /\ Cardinality(q.parts) <= limits.parts
      /\ Cardinality(q.candidates) <= limits.candidates
  BY <1>2 DEF Accepted, LimiterAccepts, AcceptStructure
<1>4. Len(t) <= limits.events
  <2>1. l.events < limits.events /\ l.events = Len(s)
    BY DEF Accepted, LimiterAccepts, Counts
  <2>2. Len(s) \in Nat /\ Len(t) = Len(s) + 1 /\ limits.events \in Int
    BY DEF Extends, LimitFields
  <2>. QED BY <2>1, <2>2
<1>5. UNION {{f.candidate : f \in Contract!Range(t[i].finishes)} : i \in Contract!Of(t, "end")}
        = Finished(t)
  BY SameOperators DEF Finished, FinishedBy
<1>6. /\ Cardinality({t[i].key : i \in Contract!Of(t, "part")}) <= limits.parts
      /\ Cardinality({k[1] : k \in {t[i].key : i \in Contract!Of(t, "part")}} \cup Finished(t))
            <= limits.candidates
      /\ Cardinality({i \in Contract!Of(t, "part") : t[i].part = "tool"}) <= limits.tools
  BY <1>1, <1>3 DEF Counts, PartKeys, ToolParts
<1>. QED BY <1>4, <1>5, <1>6, SameOperators DEF Contract!Bounded

-----------------------------------------------------------------------------
(* The response is what was delivered, assembled.                            *)

Candidates(s) ==
    {k[1] : k \in PartKeys(s)} \cup {f.candidate : f \in Range(s[Len(s)].finishes)}

Indexes(s, c) == {k[2] : k \in {x \in PartKeys(s) : x[1] = c}}

ContentAt(s, c) ==
    [n \in DOMAIN InOrder(Indexes(s, c)) |->
        Contract!PartContent(s, <<c, InOrder(Indexes(s, c))[n]>>)]

FinishAt(s, c) ==
    IF \E f \in Range(s[Len(s)].finishes) : f.candidate = c
      THEN (CHOOSE f \in Range(s[Len(s)].finishes) : f.candidate = c).reason
      ELSE "unknown"

\* The contract's assembly by parts.
LEMMA AssembledParts ==
  ASSUME NEW s
  PROVE  Contract!Assembled(s) =
            [c \in Candidates(s) |-> [content |-> ContentAt(s, c), finish |-> FinishAt(s, c)]]
<1>1. Contract!Range(s[Len(s)].finishes) = Range(s[Len(s)].finishes)
      /\ Contract!Last(s) = s[Len(s)]
  BY SameOperators
<1>2. \A c : Contract!InOrder(Indexes(s, c)) = InOrder(Indexes(s, c))
  BY SameOrder
<1>. DEFINE order(c) == Contract!InOrder(Indexes(s, c))
<1>3. Contract!Assembled(s) =
          [c \in Candidates(s) |->
              [content |-> [n \in DOMAIN order(c) |->
                               Contract!PartContent(s, <<c, order(c)[n]>>)],
               finish |-> FinishAt(s, c)]]
  BY <1>1 DEF Contract!Assembled, Candidates, FinishAt, Indexes, PartKeys
<1>4. \A c : ContentAt(s, c) =
          [n \in DOMAIN order(c) |-> Contract!PartContent(s, <<c, order(c)[n]>>)]
  BY <1>2 DEF ContentAt
<1>. HIDE DEF order
<1>. QED BY <1>3, <1>4

\* The indexes of a candidate's parts are finitely many naturals.
LEMMA IndexesFinite ==
  ASSUME NEW s, IsList(s), PartKeys(s) \subseteq Nat \X Nat, NEW c
  PROVE  /\ IsFiniteSet(Indexes(s, c)) /\ Indexes(s, c) \subseteq Nat
         /\ \A i \in Indexes(s, c) : <<c, i>> \in PartKeys(s)
<1>1. Len(s) \in Nat /\ DOMAIN s = 1..Len(s)
  BY ListIndexes
<1>2. IsFiniteSet(Contract!Of(s, "part"))
  <2>1. IsFiniteSet(1..Len(s)) /\ Contract!Of(s, "part") \subseteq 1..Len(s)
    BY <1>1, FS_Interval DEF Contract!Of
  <2>. QED BY <2>1, FS_Subset
<1>3. IsFiniteSet(PartKeys(s))
  <2>. DEFINE K == PartKeys(s)
  <2>. DEFINE f == [i \in Contract!Of(s, "part") |-> s[i].key]
  <2>1. f \in Surjection(Contract!Of(s, "part"), K)
    BY DEF Surjection, PartKeys
  <2>. HIDE DEF f, K
  <2>2. IsFiniteSet(K)
    BY <1>2, <2>1, FS_Surjection
  <2>. QED BY <2>2 DEF K
<1>4. IsFiniteSet({x \in PartKeys(s) : x[1] = c})
  BY <1>3, FS_Subset
<1>5. IsFiniteSet(Indexes(s, c))
  <2>. DEFINE X == {x \in PartKeys(s) : x[1] = c}
  <2>. DEFINE I == Indexes(s, c)
  <2>. DEFINE f == [x \in X |-> x[2]]
  <2>1. f \in Surjection(X, I)
    BY DEF Surjection, Indexes
  <2>2. IsFiniteSet(X)
    BY <1>4
  <2>. HIDE DEF f, I, X
  <2>3. IsFiniteSet(I)
    BY <2>1, <2>2, FS_Surjection
  <2>. QED BY <2>3 DEF I
<1>6. ASSUME NEW i \in Indexes(s, c) PROVE i \in Nat /\ <<c, i>> \in PartKeys(s)
  <2>1. PICK k \in PartKeys(s) : k[1] = c /\ k[2] = i
    BY DEF Indexes
  <2>2. PICK a \in Nat, b \in Nat : k = <<a, b>>
    BY <2>1
  <2>3. a = c /\ b = i
    BY <2>1, <2>2
  <2>. QED BY <2>1, <2>2, <2>3
<1>. QED BY <1>5, <1>6

\* A finish named once is found by either choice.
LEMMA FinishFound ==
  ASSUME NEW r, NEW s, Mirrors(r, s), r.ended, NEW c
  PROVE  FinishAt(s, c) =
            IF {f \in Range(r.finishes) : f.candidate = c} = {} THEN "unknown"
            ELSE (CHOOSE f \in {x \in Range(r.finishes) : x.candidate = c} : TRUE).reason
<1>. DEFINE F == Range(r.finishes)
<1>. DEFINE E == {f \in F : f.candidate = c}
<1>1. s[Len(s)].finishes = r.finishes
  BY DEF Mirrors, EndMirrored
<1>2. FinishAt(s, c) = IF \E f \in F : f.candidate = c
                         THEN (CHOOSE f \in F : f.candidate = c).reason ELSE "unknown"
  BY <1>1 DEF FinishAt
<1>3. ASSUME NEW f \in E, NEW g \in E PROVE f = g
  <2>1. PICK i \in DOMAIN r.finishes, j \in DOMAIN r.finishes :
            f = r.finishes[i] /\ g = r.finishes[j]
    BY DEF Range
  <2>2. i = j
    BY <2>1 DEF Mirrors, FinishesUnique
  <2>. QED BY <2>1, <2>2
<1>4. CASE E = {}
  <2>1. ~\E f \in F : f.candidate = c
    BY <1>4
  <2>. QED BY <1>2, <1>4, <2>1
<1>5. CASE E # {}
  <2>. DEFINE a == CHOOSE f \in F : f.candidate = c
  <2>. DEFINE b == CHOOSE f \in E : TRUE
  <2>1. \E f \in F : f.candidate = c
    BY <1>5
  <2>2. a \in F /\ a.candidate = c
    BY <2>1
  <2>3. a \in E
    BY <2>2
  <2>4. b \in E
    BY <1>5
  <2>. HIDE DEF E
  <2>5. a = b
    BY <1>3, <2>3, <2>4
  <2>6. FinishAt(s, c) = a.reason
    BY <1>2, <2>1
  <2>. QED BY <1>5, <2>5, <2>6 DEF E
<1>. QED BY <1>4, <1>5

\* The content of a candidate, from the accumulators.
ContentIn(r, c) ==
    [n \in DOMAIN InOrder(Indexes(delivered, c)) |->
        [kind |-> r.parts[<<c, InOrder(Indexes(delivered, c))[n]>>].kind,
         text |-> r.parts[<<c, InOrder(Indexes(delivered, c))[n]>>].init
                     \o r.parts[<<c, InOrder(Indexes(delivered, c))[n]>>].text]]

\* The reducer's result by parts.
LEMMA ResultParts ==
  ASSUME NEW r, Mirrors(r, delivered), r.ended
  PROVE  ReducerResult(r) =
            [c \in Candidates(delivered) |->
                [content |-> ContentIn(r, c),
                 finish |-> IF {f \in Range(r.finishes) : f.candidate = c} = {} THEN "unknown"
                            ELSE (CHOOSE f \in {x \in Range(r.finishes) : x.candidate = c} :
                                        TRUE).reason]]
<1>1. DOMAIN r.parts = PartKeys(delivered)
  BY DEF Mirrors, PartsMirrored
<1>2. delivered[Len(delivered)].finishes = r.finishes
  BY DEF Mirrors, EndMirrored
<1>. QED BY <1>1, <1>2 DEF ReducerResult, Candidates, ContentIn, Indexes

\* The result of an ended reducer is what its events assemble to.
LEMMA AssembledIs ==
  ASSUME NEW r, Mirrors(r, delivered), r.ended
  PROVE  ReducerResult(r) = Contract!Assembled(delivered)
<1>1. ASSUME NEW c PROVE ContentAt(delivered, c) = ContentIn(r, c)
  <2>. DEFINE I == Indexes(delivered, c)
  <2>. DEFINE q == InOrder(I)
  <2>1. /\ IsFiniteSet(I) /\ I \subseteq Nat
        /\ \A i \in I : <<c, i>> \in PartKeys(delivered)
    BY IndexesFinite DEF Mirrors, PartsMirrored
  <2>2. q \in [1..Cardinality(I) -> I]
    BY <2>1, InOrderMembers
  <2>. HIDE DEF q, I
  <2>3. ASSUME NEW n \in DOMAIN q PROVE <<c, q[n]>> \in PartKeys(delivered)
    BY <2>1, <2>2
  <2>4. ASSUME NEW n \in DOMAIN q
        PROVE  Contract!PartContent(delivered, <<c, q[n]>>) =
                  [kind |-> r.parts[<<c, q[n]>>].kind,
                   text |-> r.parts[<<c, q[n]>>].init \o r.parts[<<c, q[n]>>].text]
    BY <2>3, PartContentIs
  <2>5. /\ ContentAt(delivered, c) =
              [n \in DOMAIN q |-> Contract!PartContent(delivered, <<c, q[n]>>)]
        /\ ContentIn(r, c) =
              [n \in DOMAIN q |->
                  [kind |-> r.parts[<<c, q[n]>>].kind,
                   text |-> r.parts[<<c, q[n]>>].init \o r.parts[<<c, q[n]>>].text]]
    BY DEF ContentAt, ContentIn, q, I
  <2>. QED BY <2>4, <2>5
<1>2. \A c : FinishAt(delivered, c) =
          IF {f \in Range(r.finishes) : f.candidate = c} = {} THEN "unknown"
          ELSE (CHOOSE f \in {x \in Range(r.finishes) : x.candidate = c} : TRUE).reason
  BY FinishFound
<1>. QED BY <1>1, <1>2, AssembledParts, ResultParts

-----------------------------------------------------------------------------
(* The inductive invariant.                                                  *)

StreamFields ==
    {"err", "terminalSeen", "finished", "closed", "hasResponse", "reducer", "limiter"}

\* The terminal flags: an end was delivered, the outcome was drawn from it, and
\* only a reader that left or a Close may come after.
FlagsAgree ==
    /\ stream.terminalSeen <=> stream.reducer.ended
    /\ stream.finished => stream.terminalSeen
    /\ stream.finished /\ ~stream.closed => reader.at = "ended"

StreamInv ==
    /\ limits \in [LimitFields -> Int]
    /\ DOMAIN stream = StreamFields
    /\ Mirrors(stream.reducer, delivered) /\ NoOtherText(delivered)
    /\ Completed(stream.reducer)
    /\ Counts(stream.limiter, delivered)
    /\ Contract!Grammatical(delivered)
    /\ FlagsAgree

\* Nothing is delivered yet and nothing is counted.
LEMMA EmptyFacts ==
  /\ IsList(<<>>) /\ Len(<<>>) = 0 /\ DOMAIN <<>> = {}
  /\ \A kind : Contract!Of(<<>>, kind) = {}
  /\ PartKeys(<<>>) = {} /\ \A k : ~Stopped(<<>>, k)
  /\ \A k : Contract!DeltaText(<<>>, k) = <<>>
<1>1. IsList(<<>>) /\ Len(<<>>) = 0 /\ DOMAIN <<>> = {}
  BY DEF IsList
<1>2. \A kind : Contract!Of(<<>>, kind) = {}
  BY <1>1 DEF Contract!Of
<1>3. PartKeys(<<>>) = {} /\ \A k : ~Stopped(<<>>, k)
  BY <1>2 DEF PartKeys, Stopped
<1>4. ASSUME NEW k PROVE Contract!DeltaText(<<>>, k) = <<>>
  <2>1. Texts(<<>>, k) = <<>>
    BY <1>1 DEF Texts
  <2>2. FlattenSeq(<<>>) = <<>>
    BY <1>1 DEF FlattenSeq
  <2>. QED BY <2>1, <2>2, DeltaTextIs
<1>. QED BY <1>1, <1>2, <1>3, <1>4

\* A new reducer mirrors it.
LEMMA NewMirrors ==
  Mirrors(NewReducer, <<>>) /\ NoOtherText(<<>>) /\ Completed(NewReducer)
<1>1. /\ NewReducer.started = FALSE /\ NewReducer.ended = FALSE
      /\ NewReducer.parts = <<>> /\ NewReducer.finishes = <<>>
      /\ DOMAIN NewReducer.parts = {} /\ DOMAIN NewReducer.finishes = {}
  BY EmptyFacts DEF NewReducer
<1>2. IsReducer(NewReducer)
  <2>1. NewReducer = [started |-> NewReducer.started, ended |-> NewReducer.ended,
                      provider |-> NewReducer.provider, parts |-> NewReducer.parts,
                      finishes |-> NewReducer.finishes]
    BY DEF NewReducer
  <2>. QED BY <1>1, <2>1 DEF IsReducer
<1>3. StartMirrored(NewReducer, <<>>) /\ EndMirrored(NewReducer, <<>>)
  BY <1>1, EmptyFacts DEF StartMirrored, EndMirrored
<1>4. PartsMirrored(NewReducer, <<>>)
  BY <1>1, EmptyFacts DEF PartsMirrored
<1>5. TextsMirrored(NewReducer, <<>>)
  BY EmptyFacts DEF TextsMirrored
<1>6. NoOtherText(<<>>)
  BY EmptyFacts DEF NoOtherText
<1>7. FinishesUnique(NewReducer.finishes)
  BY <1>1 DEF FinishesUnique
<1>8. Completed(NewReducer)
  BY <1>1 DEF Completed
<1>9. IsList(<<>>)
  BY EmptyFacts
<1>. QED BY <1>2, <1>3, <1>4, <1>5, <1>6, <1>7, <1>8, <1>9 DEF Mirrors

\* A new limiter counts it, and it is grammatical.
LEMMA NewCounts == Counts(NewStreamLimiter, <<>>) /\ Contract!Grammatical(<<>>)
<1>1. ToolParts(<<>>) = {} /\ Finished(<<>>) = {} /\ PartKeys(<<>>) = {}
  BY EmptyFacts DEF ToolParts, Finished
<1>2. Cardinality(ToolParts(<<>>)) = 0
  BY <1>1, FS_EmptySet
<1>3. {k[1] : k \in PartKeys(<<>>)} \cup Finished(<<>>) = {}
  BY <1>1
<1>4. /\ IsLimiter(NewStreamLimiter) /\ NewStreamLimiter.events = 0
      /\ NewStreamLimiter.parts = {} /\ NewStreamLimiter.candidates = {}
      /\ NewStreamLimiter.tools = 0
  BY DEF NewStreamLimiter, IsLimiter
<1>5. Counts(NewStreamLimiter, <<>>)
  BY <1>1, <1>2, <1>3, <1>4, EmptyFacts DEF Counts
<1>6. /\ StartOnly(<<>>) /\ OneOpening(<<>>) /\ WithinPart(<<>>)
      /\ WholeArguments(<<>>) /\ EndLast(<<>>)
  BY EmptyFacts DEF StartOnly, OneOpening, WithinPart, WholeArguments, EndLast
<1>. QED BY <1>5, <1>6, GrammarParts

\* The invariant holds initially.
LEMMA StreamInvInit == StreamInit => StreamInv
<1>. SUFFICES ASSUME StreamInit PROVE StreamInv
  OBVIOUS
<1>1. PICK configured \in Configured :
          limits = NormalizeStreamLimits(configured) /\ stream = NewStream(configured)
  BY DEF StreamInit
<1>2. limits \in [LimitFields -> Int]
  BY <1>1, StreamAssumption, HardAssumption DEF NormalizeStreamLimits
<1>3. /\ DOMAIN stream = StreamFields
      /\ stream.reducer = NewReducer /\ stream.limiter = NewStreamLimiter
      /\ stream.terminalSeen = FALSE /\ stream.finished = FALSE
  BY <1>1 DEF NewStream, StreamFields
<1>4. delivered = <<>>
  BY DEF StreamInit
<1>5. FlagsAgree
  <2>1. NewReducer.ended = FALSE
    BY DEF NewReducer
  <2>. QED BY <1>3, <2>1 DEF FlagsAgree
<1>. QED BY <1>2, <1>3, <1>4, <1>5, NewMirrors, NewCounts DEF StreamInv

-----------------------------------------------------------------------------
(* Steps.                                                                    *)

\* A step that leaves the stream and what it delivered alone, and a reader that left.
Quiet ==
    /\ limits' = limits /\ stream' = stream /\ delivered' = delivered
    /\ reader.at = "ended" => reader' = reader

\* The reader may still draw an outcome.
Undrawn == stream.err = "" /\ ~stream.closed /\ ~stream.finished

Rejected ==
    \E why : stream' = [stream EXCEPT !.err = why] /\ delivered' = delivered

Drawn ==
    /\ stream.terminalSeen /\ delivered' = delivered /\ reader'.at = "ended"
    /\ stream' = [stream EXCEPT !.finished = TRUE, !.hasResponse = TRUE]

Taken(e) ==
    /\ Accepted(stream.reducer, stream.limiter, e, limits)
    /\ stream' = [stream EXCEPT !.limiter = LimiterCounts(@, e),
                                !.reducer = ReducerApplies(@, e),
                                !.terminalSeen = @ \/ e.kind = "end"]
    /\ delivered' = Append(delivered, e)

Marked ==
    /\ limits' = limits /\ reader' = reader /\ delivered' = delivered
    /\ stream' = MarkClosed(stream)

\* Only Next's resumption and Close's mark are not quiet.
LEMMA QuietSteps ==
  ASSUME [StreamNext]_streamVars
  PROVE  Quiet \/ NextResume \/ \E c \in Closers : CloseMark(c)
<1>1. CASE QueueShift \/ SourceFinished \/ ReadEOF \/ ReadFails
  BY <1>1 DEF QueueShift, SourceFinished, ReadEOF, ReadFails, MustRead, InSource, Quiet
<1>2. CASE \E w \in Wires(source.protocol) : ReadWire(w)
  BY <1>2 DEF ReadWire, MustRead, InSource, Quiet
<1>3. CASE NextEnter
  BY <1>3 DEF NextEnter, Quiet
<1>4. CASE \E c \in Closers : CloseSource(c)
  BY <1>4 DEF CloseSource, Quiet
<1>5. CASE Cancel \/ Rest \/ UNCHANGED streamVars
  BY <1>5 DEF Cancel, Rest, streamVars, Quiet
<1>. QED BY <1>1, <1>2, <1>3, <1>4, <1>5 DEF StreamNext

\* Next's resumption: superseded, or one of its three outcomes.
LEMMA ResumeSteps ==
  ASSUME StreamInv, NextResume
  PROVE  /\ limits' = limits
         /\ Quiet \/ (Undrawn /\ (Rejected \/ Drawn \/ \E e : Taken(e)))
<1>1. reader.at = "back" /\ limits' = limits
  BY DEF NextResume
<1>2. CASE Superseded(stream)
  BY <1>1, <1>2 DEF NextResume, Quiet
<1>3. CASE ~Superseded(stream)
  <2>1. Undrawn
    BY <1>1, <1>3 DEF Superseded, Undrawn, StreamInv, FlagsAgree
  <2>2. \A why : Reject(why) => Rejected
    BY DEF Reject, Rejected
  <2>3. Exhausted => Rejected \/ Drawn
    <3>1. Exhausted /\ ~stream.terminalSeen => Rejected
      BY <2>2 DEF Exhausted
    <3>2. Exhausted /\ stream.terminalSeen => Drawn
      BY DEF Exhausted, Drawn
    <3>. QED BY <3>1, <3>2
  <2>4. ASSUME NEW e, AcceptEvent(e) PROVE Rejected \/ Taken(e)
    <3>1. CASE Accepted(stream.reducer, stream.limiter, e, limits)
      BY <2>4, <3>1 DEF AcceptEvent, Accepted, Taken
    <3>2. CASE ~Accepted(stream.reducer, stream.limiter, e, limits)
      BY <2>2, <2>4, <3>2 DEF AcceptEvent, Accepted
    <3>. QED BY <3>1, <3>2
  <2>5. \/ Exhausted \/ AcceptEvent(reader.item.event)
        \/ \E why : Reject(why)
    BY <1>3 DEF NextResume
  <2>. QED BY <1>1, <2>1, <2>2, <2>3, <2>4, <2>5
<1>. QED BY <1>2, <1>3

\* Close's mark.
LEMMA MarkSteps ==
  ASSUME NEW c \in Closers, CloseMark(c)
  PROVE  Marked
BY DEF CloseMark, Marked

\* What taking an event makes of the stream.
LEMMA TakenIs ==
  ASSUME StreamInv, NEW e, Taken(e)
  PROVE  /\ stream'.reducer = ReducerApplies(stream.reducer, e)
         /\ stream'.limiter = LimiterCounts(stream.limiter, e)
         /\ stream'.terminalSeen = (stream.terminalSeen \/ e.kind = "end")
         /\ stream'.err = stream.err /\ stream'.finished = stream.finished
         /\ stream'.closed = stream.closed /\ DOMAIN stream' = StreamFields
         /\ IsList(delivered) /\ Extends(delivered', delivered, e) /\ IsList(delivered')
<1>1. IsList(delivered)
  BY DEF StreamInv, Mirrors
<1>2. IsList(delivered') /\ Extends(delivered', delivered, e)
  BY <1>1, AppendExtends DEF Taken
<1>3. DOMAIN stream = StreamFields
  BY DEF StreamInv
<1>. QED BY <1>1, <1>2, <1>3 DEF Taken, StreamFields

\* Taking an event keeps the invariant, and delivers within the contract.
LEMMA TakenKeeps ==
  ASSUME StreamInv, NEW e, Taken(e), limits' = limits, Undrawn
  PROVE  StreamInv' /\ Contract!Grammatical(delivered') /\ Contract!Bounded(delivered')
<1>. DEFINE r == stream.reducer
<1>. DEFINE q == stream'.reducer
<1>. DEFINE l == stream.limiter
<1>. DEFINE m == stream'.limiter
<1>. DEFINE s == delivered
<1>. DEFINE t == delivered'
<1>1. /\ q = ReducerApplies(r, e) /\ m = LimiterCounts(l, e)
      /\ Extends(t, s, e) /\ IsList(t)
  BY TakenIs
<1>2. /\ Mirrors(r, s) /\ NoOtherText(s) /\ Completed(r) /\ Counts(l, s)
      /\ Contract!Grammatical(s) /\ IsReducer(r)
  BY DEF StreamInv, Mirrors
<1>3. Accepted(r, l, e, limits)
  BY DEF Taken
<1>. HIDE DEF r, q, l, m, s, t
<1>4. Mirrors(q, t) /\ NoOtherText(t)
  BY <1>1, <1>2, <1>3, MirrorsStep
<1>5. Completed(q)
  BY <1>1, <1>2, <1>3, CompletedStep
<1>6. Counts(m, t)
  BY <1>1, <1>2, <1>3, CountsStep
<1>7. Contract!Grammatical(t)
  BY <1>1, <1>2, <1>3, GrammarStep
<1>8. Contract!Bounded(t)
  <2>1. limits \in [LimitFields -> Int]
    BY DEF StreamInv
  <2>. QED BY <1>1, <1>2, <1>3, <2>1, BoundedStep
<1>9. FlagsAgree'
  <2>1. Applied(q, r, e)
    BY <1>1, <1>2, <1>3, ReducerStep
  <2>2. stream'.reducer.ended <=> (stream.reducer.ended \/ e.kind = "end")
    BY <2>1 DEF Applied, q, r
  <2>3. stream'.terminalSeen <=> (stream.terminalSeen \/ e.kind = "end")
    BY TakenIs
  <2>4. ~stream'.finished
    BY TakenIs DEF Undrawn
  <2>. QED BY <2>2, <2>3, <2>4 DEF FlagsAgree, StreamInv
<1>10. StreamInv'
  BY <1>4, <1>5, <1>6, <1>7, <1>9, TakenIs DEF StreamInv, q, t, m
<1>. QED BY <1>7, <1>8, <1>10 DEF t

\* Every step keeps the invariant.
LEMMA StreamInvStep == StreamInv /\ [StreamNext]_streamVars => StreamInv'
<1>. SUFFICES ASSUME StreamInv, [StreamNext]_streamVars PROVE StreamInv'
  OBVIOUS
<1>1. CASE Quiet
  BY <1>1 DEF Quiet, StreamInv, FlagsAgree
<1>2. ASSUME limits' = limits, delivered' = delivered,
             stream'.reducer = stream.reducer, stream'.limiter = stream.limiter,
             DOMAIN stream' = DOMAIN stream, FlagsAgree'
      PROVE  StreamInv'
  BY <1>2 DEF StreamInv
<1>3. CASE NextResume
  <2>1. ASSUME Undrawn, Rejected, limits' = limits PROVE StreamInv'
    <3>1. PICK why : stream' = [stream EXCEPT !.err = why] /\ delivered' = delivered
      BY <2>1 DEF Rejected
    <3>2. /\ stream'.reducer = stream.reducer /\ stream'.limiter = stream.limiter
          /\ DOMAIN stream' = DOMAIN stream
          /\ stream'.terminalSeen = stream.terminalSeen /\ stream'.finished = stream.finished
      BY <3>1 DEF StreamInv, StreamFields
    <3>3. FlagsAgree'
      BY <2>1, <3>2 DEF StreamInv, FlagsAgree, Undrawn
    <3>. QED BY <1>2, <2>1, <3>1, <3>2, <3>3
  <2>2. ASSUME Drawn, limits' = limits PROVE StreamInv'
    <3>1. /\ stream'.reducer = stream.reducer /\ stream'.limiter = stream.limiter
          /\ DOMAIN stream' = DOMAIN stream
          /\ stream'.terminalSeen = stream.terminalSeen
      BY <2>2 DEF Drawn, StreamInv, StreamFields
    <3>2. FlagsAgree'
      BY <2>2, <3>1 DEF Drawn, StreamInv, FlagsAgree
    <3>. QED BY <1>2, <2>2, <3>1, <3>2 DEF Drawn
  <2>. QED BY <1>1, <1>3, <2>1, <2>2, ResumeSteps, TakenKeeps
<1>4. CASE \E c \in Closers : CloseMark(c)
  <2>1. Marked
    BY <1>4, MarkSteps
  <2>2. /\ stream'.reducer = stream.reducer /\ stream'.limiter = stream.limiter
        /\ DOMAIN stream' = DOMAIN stream
        /\ stream'.terminalSeen = stream.terminalSeen
        /\ stream'.finished => stream.finished \/ stream.terminalSeen
        /\ stream'.finished /\ ~stream'.closed => stream.finished /\ ~stream.closed
    BY <2>1 DEF Marked, MarkClosed, StreamInv, StreamFields
  <2>3. FlagsAgree'
    BY <2>1, <2>2 DEF Marked, StreamInv, FlagsAgree
  <2>. QED BY <1>2, <2>1, <2>2, <2>3 DEF Marked
<1>. QED BY <1>1, <1>3, <1>4, QuietSteps

\* What a reader is handed stays grammatical, and the accumulators are its functions.
THEOREM StreamInvariant == StreamSpec => []StreamInv
<1>. QED BY StreamInvInit, StreamInvStep, PTL DEF StreamSpec

-----------------------------------------------------------------------------
(* The refinement.                                                           *)

\* What the contract takes for the outcome.
Outcome ==
    IF stream.err # "" THEN [is |-> "error", response |-> <<>>]
    ELSE IF HasResponse THEN [is |-> "response", response |-> Response]
    ELSE [is |-> "open", response |-> <<>>]

\* The contract's actions on it.
LEMMA ContractActions ==
  /\ Contract!contractVars = <<limits, delivered, Outcome>>
  /\ Contract!ContractInit <=>
        delivered = <<>> /\ Outcome \in {Contract!Undecided, Contract!Broken}
  /\ (UNCHANGED Contract!contractVars) <=>
        limits' = limits /\ delivered' = delivered /\ Outcome' = Outcome
  /\ Contract!Deliver <=>
        /\ Outcome = Contract!Undecided /\ Len(delivered') = Len(delivered) + 1
        /\ IsPrefix(delivered, delivered')
        /\ Contract!Grammatical(delivered') /\ Contract!Bounded(delivered')
        /\ limits' = limits /\ Outcome' = Outcome
  /\ Contract!Complete <=>
        /\ Outcome = Contract!Undecided
        /\ delivered # <<>> /\ delivered[Len(delivered)].kind = "end"
        /\ Outcome' = [is |-> "response", response |-> Contract!Assembled(delivered)]
        /\ limits' = limits /\ delivered' = delivered
  /\ Contract!Break <=>
        /\ Outcome = Contract!Undecided /\ Outcome' = Contract!Broken
        /\ limits' = limits /\ delivered' = delivered
<1>1. Contract!contractVars = <<limits, delivered, Outcome>>
  BY DEF Contract!contractVars, Outcome
<1>2. Contract!ContractInit <=>
          delivered = <<>> /\ Outcome \in {Contract!Undecided, Contract!Broken}
  BY DEF Contract!ContractInit, Outcome
<1>3. (UNCHANGED Contract!contractVars) <=>
          limits' = limits /\ delivered' = delivered /\ Outcome' = Outcome
  BY DEF Contract!contractVars, Outcome
<1>4. Contract!Deliver <=>
          /\ Outcome = Contract!Undecided /\ Len(delivered') = Len(delivered) + 1
          /\ IsPrefix(delivered, delivered')
          /\ Contract!Grammatical(delivered') /\ Contract!Bounded(delivered')
          /\ limits' = limits /\ Outcome' = Outcome
  BY SameOperators DEF Contract!Deliver, Outcome
<1>5. Contract!Complete <=>
          /\ Outcome = Contract!Undecided
          /\ delivered # <<>> /\ delivered[Len(delivered)].kind = "end"
          /\ Outcome' = [is |-> "response", response |-> Contract!Assembled(delivered)]
          /\ limits' = limits /\ delivered' = delivered
  BY SameOperators DEF Contract!Complete, Outcome
<1>6. Contract!Break <=>
          /\ Outcome = Contract!Undecided /\ Outcome' = Contract!Broken
          /\ limits' = limits /\ delivered' = delivered
  BY DEF Contract!Break, Outcome
<1>. QED BY <1>1, <1>2, <1>3, <1>4, <1>5, <1>6

\* When an outcome is which.
LEMMA Outcomes ==
  /\ stream.err # "" => Outcome = Contract!Broken
  /\ stream.err = "" /\ HasResponse =>
        Outcome = [is |-> "response", response |-> ReducerResult(stream.reducer)]
  /\ stream.err = "" /\ ~HasResponse => Outcome = Contract!Undecided
BY DEF Outcome, Contract!Broken, Contract!Undecided, Response

\* The terminal flag means that an end was delivered, last.
LEMMA EndDelivered ==
  ASSUME StreamInv, stream.terminalSeen
  PROVE  /\ stream.reducer.ended /\ delivered # <<>>
         /\ delivered[Len(delivered)].kind = "end"
<1>1. stream.reducer.ended
  BY DEF StreamInv, FlagsAgree
<1>2. PICK i \in Contract!Of(delivered, "end") : TRUE
  BY <1>1 DEF StreamInv, Mirrors, EndMirrored
<1>3. i = Len(delivered)
  <2>1. EndLast(delivered)
    BY GrammarParts DEF StreamInv
  <2>. QED BY <2>1 DEF EndLast
<1>4. i \in DOMAIN delivered /\ delivered[i].kind = "end"
  BY DEF Contract!Of
<1>5. delivered # <<>>
  BY <1>4, EmptyFacts
<1>. QED BY <1>1, <1>3, <1>4, <1>5

\* Initially the contract's state is.
LEMMA ContractInitially == StreamInit => Contract!ContractInit
<1>. SUFFICES ASSUME StreamInit PROVE Contract!ContractInit
  OBVIOUS
<1>1. PICK configured \in Configured : stream = NewStream(configured)
  BY DEF StreamInit
<1>2. stream.finished = FALSE /\ stream.closed = FALSE
  BY <1>1 DEF NewStream
<1>3. delivered = <<>> /\ ~HasResponse
  BY <1>2 DEF StreamInit, HasResponse
<1>. QED BY <1>3, Outcomes, ContractActions

\* A step that changes neither the flags nor the parts changes no outcome.
LEMMA SameOutcome ==
  ASSUME limits' = limits, delivered' = delivered, stream'.err = stream.err,
         HasResponse' <=> HasResponse, stream'.reducer = stream.reducer
  PROVE  UNCHANGED Contract!contractVars
<1>1. Outcome' = Outcome
  BY DEF Outcome, Response
<1>. QED BY <1>1, ContractActions

\* An error ends an open stream.
LEMMA ErrorBreaks ==
  ASSUME limits' = limits, delivered' = delivered, stream.err = "", ~HasResponse,
         stream'.err # ""
  PROVE  Contract!Break
<1>1. Outcome = Contract!Undecided
  BY Outcomes
<1>2. Outcome' = Contract!Broken
  BY DEF Outcome, Contract!Broken
<1>. QED BY <1>1, <1>2, ContractActions

\* A response is what the delivered events assemble to.
LEMMA ResponseCompletes ==
  ASSUME StreamInv, limits' = limits, delivered' = delivered, stream.err = "", ~HasResponse,
         stream'.err = "", HasResponse', stream'.reducer = stream.reducer,
         stream.terminalSeen
  PROVE  Contract!Complete
<1>1. Outcome = Contract!Undecided
  BY Outcomes
<1>2. Outcome' = [is |-> "response", response |-> ReducerResult(stream.reducer)]
  BY DEF Outcome, Response
<1>3. /\ stream.reducer.ended /\ delivered # <<>>
      /\ delivered[Len(delivered)].kind = "end"
  BY EndDelivered
<1>4. ReducerResult(stream.reducer) = Contract!Assembled(delivered)
  <2>1. Mirrors(stream.reducer, delivered)
    BY DEF StreamInv
  <2>. QED BY <1>3, <2>1, AssembledIs
<1>. QED BY <1>1, <1>2, <1>3, <1>4, ContractActions

\* An event taken is delivered while the outcome is open.
LEMMA TakenDelivers ==
  ASSUME StreamInv, NEW e, Taken(e), limits' = limits, Undrawn
  PROVE  Contract!Deliver
<1>1. ~HasResponse /\ ~HasResponse' /\ stream.err = "" /\ stream'.err = ""
  BY TakenIs DEF HasResponse, Undrawn
<1>2. Outcome = Contract!Undecided /\ Outcome' = Outcome
  BY <1>1 DEF Outcome, Contract!Undecided
<1>3. Contract!Grammatical(delivered') /\ Contract!Bounded(delivered')
  BY TakenKeeps
<1>4. IsPrefix(delivered, delivered') /\ Len(delivered') = Len(delivered) + 1
  BY TakenIs DEF Extends, IsPrefix
<1>. QED BY <1>2, <1>3, <1>4, ContractActions

\* Every step is one of the contract's, or leaves its state alone.
LEMMA ContractStep ==
  StreamInv /\ [StreamNext]_streamVars => [Contract!ContractNext]_(Contract!contractVars)
<1>. SUFFICES ASSUME StreamInv, [StreamNext]_streamVars
              PROVE  \/ Contract!Deliver \/ Contract!Complete \/ Contract!Break
                     \/ UNCHANGED Contract!contractVars
  BY DEF Contract!ContractNext
<1>1. CASE Quiet
  <2>1. HasResponse' <=> HasResponse
    BY <1>1 DEF Quiet, HasResponse
  <2>. QED BY <1>1, <2>1, SameOutcome DEF Quiet
<1>2. CASE NextResume
  <2>1. ASSUME Undrawn, Rejected, limits' = limits
        PROVE  Contract!Break \/ UNCHANGED Contract!contractVars
    <3>1. PICK why : stream' = [stream EXCEPT !.err = why] /\ delivered' = delivered
      BY <2>1 DEF Rejected
    <3>2. /\ stream'.reducer = stream.reducer /\ stream'.finished = stream.finished
          /\ stream'.closed = stream.closed
      BY <3>1 DEF StreamInv, StreamFields
    <3>3. ~HasResponse /\ ~HasResponse' /\ stream.err = ""
      BY <2>1, <3>2 DEF HasResponse, Undrawn
    <3>4. CASE stream'.err = ""
      BY <2>1, <3>1, <3>2, <3>3, <3>4, SameOutcome
    <3>5. CASE stream'.err # ""
      BY <2>1, <3>1, <3>3, <3>5, ErrorBreaks
    <3>. QED BY <3>4, <3>5
  <2>2. ASSUME Undrawn, Drawn, limits' = limits PROVE Contract!Complete
    <3>1. /\ stream'.reducer = stream.reducer /\ stream'.finished
          /\ stream'.err = stream.err /\ stream'.terminalSeen = stream.terminalSeen
      BY <2>2 DEF Drawn, StreamInv, StreamFields
    <3>2. ~HasResponse /\ HasResponse' /\ stream.err = "" /\ stream'.err = ""
      BY <2>2, <3>1 DEF HasResponse, Undrawn, Drawn
    <3>. QED BY <2>2, <3>1, <3>2, ResponseCompletes DEF Drawn
  <2>. QED BY <1>1, <1>2, <2>1, <2>2, ResumeSteps, TakenDelivers
<1>3. CASE \E c \in Closers : CloseMark(c)
  <2>1. Marked
    BY <1>3, MarkSteps
  <2>2. CASE stream.closed
    <3>1. stream' = stream
      BY <2>1, <2>2 DEF Marked, MarkClosed
    <3>2. HasResponse' <=> HasResponse
      BY <3>1 DEF HasResponse
    <3>. QED BY <2>1, <3>1, <3>2, SameOutcome DEF Marked
  <2>3. CASE ~stream.closed /\ stream.err # ""
    <3>1. stream'.err = stream.err /\ stream'.reducer = stream.reducer
      BY <2>1, <2>3 DEF Marked, MarkClosed, StreamInv, StreamFields
    <3>2. ~HasResponse /\ ~HasResponse'
      BY <2>3, <3>1 DEF HasResponse
    <3>. QED BY <2>1, <3>1, <3>2, SameOutcome DEF Marked
  <2>4. CASE ~stream.closed /\ stream.err = "" /\ ~stream.terminalSeen
    <3>1. stream'.err = "cancelled"
      BY <2>1, <2>4 DEF Marked, MarkClosed, StreamInv, StreamFields
    <3>2. ~HasResponse
      BY <2>4 DEF HasResponse
    <3>. QED BY <2>1, <2>4, <3>1, <3>2, ErrorBreaks DEF Marked
  <2>5. CASE ~stream.closed /\ stream.err = "" /\ stream.terminalSeen
    <3>1. /\ stream'.err = "" /\ stream'.reducer = stream.reducer
          /\ stream'.closed /\ stream'.terminalSeen
      BY <2>1, <2>5 DEF Marked, MarkClosed, StreamInv, StreamFields
    <3>2. HasResponse'
      BY <3>1 DEF HasResponse
    <3>3. CASE HasResponse
      BY <2>1, <2>5, <3>1, <3>2, <3>3, SameOutcome DEF Marked
    <3>4. CASE ~HasResponse
      BY <2>1, <2>5, <3>1, <3>2, <3>4, ResponseCompletes DEF Marked
    <3>. QED BY <3>3, <3>4
  <2>. QED BY <2>2, <2>3, <2>4, <2>5
<1>. QED BY <1>1, <1>2, <1>3, QuietSteps

\* The stream implements the contract, whatever the source returns and whoever closes.
THEOREM StreamRefines == StreamSpec => StreamImplemented
<1>1. StreamSpec => []StreamInv
  BY StreamInvariant
<1>. QED BY <1>1, ContractInitially, ContractStep, PTL
         DEF StreamSpec, StreamImplemented, Contract!ContractSpec

-----------------------------------------------------------------------------
(* The decoders: no event they queue is a response end until they finished.  *)

SourceFields ==
    {"protocol", "queue", "err", "started", "finished", "guard", "parts", "finish",
     "state", "blocked", "active", "last"}

NoEnd(q) == IsList(q) /\ \A i \in DOMAIN q : q[i].kind # "end"

\* A source of protocol p that has neither failed nor finished.
Running(s, p) ==
    /\ DOMAIN s = SourceFields /\ s.err = "" /\ s.protocol = p /\ ~s.finished
    /\ NoEnd(s.queue)

\* A sequence given by its length and its elements.
LEMMA ListOf ==
  ASSUME NEW n \in Nat, NEW q, q = [i \in 1..n |-> q[i]]
  PROVE  IsList(q) /\ Len(q) = n /\ DOMAIN q = 1..n
<1>1. q \in [1..n -> Range(q)] /\ DOMAIN q = 1..n
  BY DEF Range
<1>2. q \in Seq(Range(q))
  BY <1>1
<1>3. Len(q) = n
  BY <1>1, FunctionLength
<1>. QED BY <1>1, <1>2, <1>3 DEF IsList

\* Events that are no end, one, two or one after the other.
LEMMA NoEndSequences ==
  /\ NoEnd(<<>>)
  /\ \A e : e.kind # "end" => NoEnd(<<e>>)
  /\ \A q, r : NoEnd(q) /\ NoEnd(r) => NoEnd(q \o r)
<1>1. NoEnd(<<>>)
  BY EmptyFacts DEF NoEnd
<1>2. ASSUME NEW e, e.kind # "end" PROVE NoEnd(<<e>>)
  <2>. DEFINE q == <<e>>
  <2>1. q = [i \in 1..1 |-> q[i]] /\ q[1] = e
    OBVIOUS
  <2>. HIDE DEF q
  <2>2. IsList(q) /\ DOMAIN q = 1..1
    BY <2>1, ListOf
  <2>3. NoEnd(q)
    BY <1>2, <2>1, <2>2 DEF NoEnd
  <2>. QED BY <2>3 DEF q
<1>3. ASSUME NEW q, NEW r, NoEnd(q), NoEnd(r) PROVE NoEnd(q \o r)
  <2>. DEFINE D == Range(q) \cup Range(r)
  <2>. DEFINE t == q \o r
  <2>. DEFINE m == Len(q)
  <2>. DEFINE n == Len(r)
  <2>1. m \in Nat /\ n \in Nat /\ DOMAIN q = 1..m /\ DOMAIN r = 1..n
    BY <1>3, ListIndexes DEF NoEnd
  <2>2. q \in Seq(D) /\ r \in Seq(D)
    BY <1>3, SeqMonotonic DEF NoEnd, IsList
  <2>. HIDE DEF D
  <2>3. /\ t \in Seq(D) /\ Len(t) = m + n
        /\ \A i \in 1..(m + n) : t[i] = IF i <= m THEN q[i] ELSE r[i - m]
    BY <2>2, ConcatProperties
  <2>. HIDE DEF t, m, n
  <2>4. t = [i \in 1..(m + n) |-> t[i]] /\ m + n \in Nat
    <3>1. t \in [1..Len(t) -> D]
      BY <2>3, LenProperties
    <3>. QED BY <2>1, <2>3, <3>1
  <2>5. IsList(t) /\ DOMAIN t = 1..(m + n)
    BY <2>4, ListOf
  <2>6. ASSUME NEW i \in 1..(m + n) PROVE t[i].kind # "end"
    <3>1. CASE i <= m
      <4>1. i \in DOMAIN q /\ t[i] = q[i]
        BY <2>1, <2>3, <3>1
      <4>. QED BY <1>3, <4>1 DEF NoEnd
    <3>2. CASE ~(i <= m)
      <4>1. i - m \in DOMAIN r /\ t[i] = r[i - m]
        BY <2>1, <2>3, <3>2
      <4>. QED BY <1>3, <4>1 DEF NoEnd
    <3>. QED BY <3>1, <3>2
  <2>7. NoEnd(t)
    BY <2>5, <2>6 DEF NoEnd
  <2>. QED BY <2>7 DEF t
<1>. QED BY <1>1, <1>2, <1>3

\* Events that are no end, listed by an index.
LEMMA NoEndList ==
  ASSUME NEW n \in Nat, NEW q, q = [i \in 1..n |-> q[i]], \A i \in 1..n : q[i].kind # "end"
  PROVE  NoEnd(q)
BY ListOf DEF NoEnd

\* The events of a part and the start of a response are no end.
LEMMA PartEvents ==
  /\ ResponseStart.kind = "start"
  /\ \A c, p, kind, text :
        /\ PartStart(c, p, kind).kind = "part" /\ PartDelta(c, p, kind, text).kind = "delta"
        /\ PartEnd(c, p).kind = "stop"
        /\ NoEnd(<<PartStart(c, p, kind)>>) /\ NoEnd(<<PartDelta(c, p, kind, text)>>)
        /\ NoEnd(<<PartEnd(c, p)>>)
<1>1. ResponseStart.kind = "start"
  BY DEF ResponseStart, Event
<1>2. \A c, p, kind, text :
          /\ PartStart(c, p, kind).kind = "part" /\ PartDelta(c, p, kind, text).kind = "delta"
          /\ PartEnd(c, p).kind = "stop"
  BY DEF PartStart, PartDelta, PartEnd, Event
<1>. QED BY <1>1, <1>2, NoEndSequences

\* Pushing such events keeps a source running and touches its queue alone.
LEMMA PushRuns ==
  ASSUME NEW s, NEW p, Running(s, p), NEW q, NoEnd(q)
  PROVE  /\ Running(Push(s, q), p)
         /\ Push(s, q).parts = s.parts /\ Push(s, q).finish = s.finish
         /\ Push(s, q).started = s.started
<1>1. NoEnd(s.queue \o q)
  BY NoEndSequences DEF Running
<1>. QED BY <1>1 DEF Push, Running, SourceFields

\* Start pushes the start of the response, once.
LEMMA StartRuns ==
  ASSUME NEW s, NEW p, Running(s, p)
  PROVE  Running(Start(s), p) /\ Start(s).parts = s.parts /\ Start(s).finish = s.finish
<1>. DEFINE t == Push(s, <<ResponseStart>>)
<1>1. Running(t, p) /\ t.parts = s.parts /\ t.finish = s.finish
  BY PartEvents, NoEndSequences, PushRuns
<1>2. Start(s) = IF s.started THEN s ELSE [t EXCEPT !.started = TRUE]
  BY DEF Start
<1>. HIDE DEF t
<1>3. CASE s.started
  BY <1>2, <1>3
<1>4. CASE ~s.started
  BY <1>1, <1>2, <1>4 DEF Running, SourceFields
<1>. QED BY <1>3, <1>4

\* The guard's accounts are a field of their own; a failure is one.
LEMMA GuardRuns ==
  ASSUME NEW s, NEW p, Running(s, p)
  PROVE  /\ \A key : /\ Running(GuardStart(s, key), p)
                     /\ GuardStart(s, key).parts = s.parts
                     /\ GuardStart(s, key).finish = s.finish
         /\ \A why : why # "" => Fails(s, why).err # ""
BY DEF Running, SourceFields, GuardStart, Fails

\* What accounting, or any step that may fail, leaves of a running source s.
FailsOrKeeps(t, s, p) ==
    t.err # "" \/ (Running(t, p) /\ t.parts = s.parts /\ t.finish = s.finish)

\* Accounting for arguments fails or changes that field alone.
LEMMA ArgumentsRun ==
  ASSUME NEW s, NEW p, Running(s, p)
  PROVE  /\ \A keys, size : FailsOrKeeps(AddToEach(s, keys, size), s, p)
         /\ \A key, size : FailsOrKeeps(AddArguments(s, key, size), s, p)
<1>1. ASSUME NEW keys, NEW size PROVE FailsOrKeeps(AddToEach(s, keys, size), s, p)
  <2>1. CASE CanAddArguments(s, keys, size)
    BY <2>1 DEF AddToEach, Running, SourceFields, FailsOrKeeps
  <2>2. CASE ~CanAddArguments(s, keys, size)
    BY <2>2, GuardRuns DEF AddToEach, FailsOrKeeps
  <2>. QED BY <2>1, <2>2
<1>. QED BY <1>1 DEF AddArguments

-----------------------------------------------------------------------------
(* Chat Completions.                                                         *)

ChatPartFields == {"part", "kind", "pending", "had", "open"}

IsChatPart(part) ==
    /\ DOMAIN part = ChatPartFields /\ part.part \in Int
    /\ part.open => part.part >= 0

\* The parts are finitely many, and the open ones are placed.
ChatParts(s) ==
    /\ IsFiniteSet(DOMAIN s.parts)
    /\ \A k \in DOMAIN s.parts : IsChatPart(s.parts[k])

ChatRuns(s) == s.err # "" \/ (Running(s, "chat") /\ ChatParts(s))

\* One more part, or another in the place of one.
LEMMA PutPart ==
  ASSUME NEW s, NEW t, NEW key, NEW part, ChatParts(s), IsChatPart(part),
         t.parts = Put(s.parts, key, part)
  PROVE  ChatParts(t)
<1>1. /\ DOMAIN t.parts = DOMAIN s.parts \cup {key} /\ t.parts[key] = part
      /\ \A k \in DOMAIN s.parts : k # key => t.parts[k] = s.parts[k]
  BY DEF Put
<1>2. IsFiniteSet(DOMAIN s.parts \cup {key})
  BY FS_AddElement DEF ChatParts
<1>. QED BY <1>1, <1>2 DEF ChatParts

\* The next part of a choice is a natural.
LEMMA NextPartIs ==
  ASSUME NEW s, ChatParts(s), NEW c
  PROVE  NextPart(s, c) \in Nat
<1>. DEFINE K == {k \in DOMAIN s.parts : k[1] = c /\ s.parts[k].part >= 0}
<1>1. IsFiniteSet(K)
  BY FS_Subset DEF ChatParts
<1>. HIDE DEF K
<1>2. Cardinality(K) \in Nat
  BY <1>1, FS_CardinalityType
<1>. QED BY <1>2 DEF NextPart, K

\* Text and refusals.
LEMMA SimpleRuns ==
  ASSUME NEW s, Running(s, "chat"), ChatParts(s), NEW w
  PROVE  ChatRuns(ConsumeSimple(s, w))
<1>. DEFINE key == <<w.choice, w.slot>>
<1>. DEFINE n == NextPart(s, w.choice)
<1>1. CASE key \notin DOMAIN s.parts
  <2>. DEFINE part == [NoChatPart EXCEPT !.part = n, !.kind = w.slot, !.open = TRUE]
  <2>. DEFINE t == [s EXCEPT !.parts = Put(@, key, part)]
  <2>. DEFINE q == <<PartStart(w.choice, n, w.slot), PartDelta(w.choice, n, w.slot, w.text)>>
  <2>1. ConsumeSimple(s, w) = Push(t, q)
    BY <1>1 DEF ConsumeSimple
  <2>2. IsChatPart(part)
    <3>1. n \in Nat
      BY NextPartIs
    <3>. HIDE DEF n
    <3>. QED BY <3>1 DEF IsChatPart, NoChatPart, ChatPartFields
  <2>3. Running(t, "chat") /\ t.parts = Put(s.parts, key, part)
    <3>. HIDE DEF part, key
    <3>. QED BY DEF Running, SourceFields
  <2>4. ChatParts(t)
    <3>. HIDE DEF part, t, key
    <3>. QED BY <2>2, <2>3, PutPart
  <2>5. NoEnd(q)
    <3>1. q = <<PartStart(w.choice, n, w.slot)>> \o <<PartDelta(w.choice, n, w.slot, w.text)>>
      OBVIOUS
    <3>. QED BY <3>1, PartEvents, NoEndSequences
  <2>. HIDE DEF t, q
  <2>6. Running(Push(t, q), "chat") /\ Push(t, q).parts = t.parts
    BY <2>3, <2>5, PushRuns
  <2>. QED BY <2>1, <2>4, <2>6 DEF ChatRuns, ChatParts
<1>2. CASE key \in DOMAIN s.parts
  <2>. DEFINE q == <<PartDelta(w.choice, s.parts[key].part, w.slot, w.text)>>
  <2>1. ConsumeSimple(s, w) = Push(s, q)
    BY <1>2 DEF ConsumeSimple
  <2>2. NoEnd(q)
    BY PartEvents
  <2>. HIDE DEF q
  <2>3. Running(Push(s, q), "chat") /\ Push(s, q).parts = s.parts
    BY <2>2, PushRuns
  <2>. QED BY <2>1, <2>3 DEF ChatRuns, ChatParts
<1>. QED BY <1>1, <1>2

\* Tool calls.
LEMMA ToolDeltaRuns ==
  ASSUME NEW s, Running(s, "chat"), ChatParts(s), NEW w, NEW calls
  PROVE  ChatRuns(ConsumeToolDelta(s, w, calls))
<1>. DEFINE key     == <<w.choice, w.slot>>
<1>. DEFINE known   == key \in DOMAIN s.parts
<1>. DEFINE tool    == IF known THEN s.parts[key] ELSE NoChatPart
<1>. DEFINE started == IF known THEN s ELSE GuardStart(s, key)
<1>. DEFINE counted == IF w.text = <<>> THEN started
                                        ELSE AddArguments(started, key, Len(w.text))
<1>. DEFINE opens   == tool.part < 0 /\ w.name
<1>. DEFINE n       == IF opens THEN NextPart(s, w.choice) ELSE tool.part
<1>. DEFINE pending == tool.pending \o w.text
<1>. DEFINE part    == [tool EXCEPT !.part = n, !.open = @ \/ opens,
                                    !.had = @ \/ w.text # <<>>,
                                    !.pending = IF n < 0 THEN pending ELSE <<>>]
<1>. DEFINE t == [counted EXCEPT !.parts = Put(@, key, part)]
<1>. DEFINE q == (IF opens THEN <<PartStart(w.choice, n, "tool")>> ELSE <<>>) \o
                 (IF n >= 0 /\ pending # <<>>
                    THEN <<PartDelta(w.choice, n, "tool", pending)>> ELSE <<>>)
<1>1. ConsumeToolDelta(s, w, calls) =
          IF ~known /\ ~CanStart(s, key, calls) THEN Fails(s, "limit")
          ELSE IF counted.err # "" THEN counted ELSE Push(t, q)
  BY DEF ConsumeToolDelta
<1>2. IsChatPart(tool)
  BY DEF ChatParts, IsChatPart, NoChatPart, ChatPartFields
<1>3. NextPart(s, w.choice) \in Nat
  BY NextPartIs
<1>4. IsChatPart(part)
  <2>1. n \in Int /\ (opens => n >= 0) /\ (~opens => n = tool.part)
    <3>. HIDE DEF tool
    <3>. QED BY <1>2, <1>3 DEF IsChatPart
  <2>. HIDE DEF tool, pending, n, opens
  <2>2. DOMAIN part = ChatPartFields /\ part.part = n /\ (part.open <=> tool.open \/ opens)
    BY <1>2 DEF IsChatPart, ChatPartFields
  <2>. HIDE DEF part
  <2>. QED BY <1>2, <2>1, <2>2 DEF IsChatPart
<1>5. Running(started, "chat") /\ started.parts = s.parts
  BY GuardRuns
<1>6. counted.err # "" \/ (Running(counted, "chat") /\ counted.parts = s.parts)
  <2>. DEFINE size == Len(w.text)
  <2>. DEFINE more == AddArguments(started, key, size)
  <2>1. counted = IF w.text = <<>> THEN started ELSE more
    OBVIOUS
  <2>. HIDE DEF started, key, size, counted
  <2>2. FailsOrKeeps(more, started, "chat")
    BY <1>5, ArgumentsRun
  <2>. HIDE DEF more
  <2>. QED BY <1>5, <2>1, <2>2 DEF FailsOrKeeps
<1>7. NoEnd(q)
  <2>1. NoEnd(IF opens THEN <<PartStart(w.choice, n, "tool")>> ELSE <<>>)
    BY PartEvents, NoEndSequences
  <2>2. NoEnd(IF n >= 0 /\ pending # <<>>
                THEN <<PartDelta(w.choice, n, "tool", pending)>> ELSE <<>>)
    BY PartEvents, NoEndSequences
  <2>. QED BY <2>1, <2>2, NoEndSequences
<1>8. Fails(s, "limit").err # ""
  BY GuardRuns
<1>9. CASE counted.err # ""
  <2>. HIDE DEF counted, t, q, known, key
  <2>1. ConsumeToolDelta(s, w, calls) \in {Fails(s, "limit"), counted}
    BY <1>1, <1>9
  <2>. QED BY <1>8, <1>9, <2>1 DEF ChatRuns
<1>10. CASE counted.err = ""
  <2>. HIDE DEF counted, q, part, key, known
  <2>1. Running(counted, "chat") /\ counted.parts = s.parts
    BY <1>6, <1>10
  <2>2. Running(t, "chat") /\ t.parts = Put(s.parts, key, part)
    BY <2>1 DEF Running, SourceFields
  <2>. HIDE DEF t
  <2>3. ChatParts(t)
    BY <1>4, <2>2, PutPart
  <2>4. Running(Push(t, q), "chat") /\ Push(t, q).parts = t.parts
    BY <1>7, <2>2, PushRuns
  <2>5. ChatParts(Push(t, q))
    BY <2>3, <2>4 DEF ChatParts
  <2>6. ConsumeToolDelta(s, w, calls) \in {Fails(s, "limit"), Push(t, q)}
    BY <1>1, <1>10
  <2>. QED BY <1>8, <2>4, <2>5, <2>6 DEF ChatRuns
<1>. QED BY <1>9, <1>10

\* What closing choices leaves: a failure, or parts that are closed and more events.
LEMMA CloseShape ==
  ASSUME NEW s, Running(s, "chat"), ChatParts(s), NEW choices,
         NEW t, t = CloseChoices(s, choices)
  PROVE  \/ t.err # ""
         \/ /\ DOMAIN t = SourceFields /\ t.err = "" /\ t.protocol = "chat" /\ ~t.finished
            /\ ChatParts(t)
            /\ t.queue = s.queue \o FlattenSeq([i \in DOMAIN choices |-> Closing(s, choices[i])])
<1>. DEFINE keys   == {k \in DOMAIN s.parts : k[1] \in Range(choices)}
<1>. DEFINE filled == AddToEach(s, {k \in keys : Unfilled(s.parts[k])}, Len(Braces))
<1>. DEFINE parts  == [k \in DOMAIN s.parts |->
                          IF k \notin keys THEN s.parts[k]
                          ELSE [s.parts[k] EXCEPT !.open = FALSE,
                                                  !.had = @ \/ Unfilled(s.parts[k])]]
<1>. DEFINE more   == FlattenSeq([i \in DOMAIN choices |-> Closing(s, choices[i])])
<1>1. t = IF filled.err # "" THEN filled
          ELSE Push([filled EXCEPT !.parts = parts], more)
  BY DEF CloseChoices
<1>2. FailsOrKeeps(filled, s, "chat")
  BY ArgumentsRun
<1>3. CASE filled.err # ""
  <2>. HIDE DEF filled, parts, more
  <2>. QED BY <1>1, <1>3
<1>4. CASE filled.err = ""
  <2>1. Running(filled, "chat") /\ filled.parts = s.parts
    <3>. HIDE DEF filled
    <3>. QED BY <1>2, <1>4 DEF FailsOrKeeps
  <2>2. DOMAIN parts = DOMAIN s.parts
    <3>. HIDE DEF filled, keys
    <3>. QED BY <2>1
  <2>3. ASSUME NEW k \in DOMAIN s.parts PROVE IsChatPart(parts[k])
    <3>. DEFINE old == s.parts[k]
    <3>. DEFINE new == [old EXCEPT !.open = FALSE, !.had = @ \/ Unfilled(old)]
    <3>1. IsChatPart(old)
      BY DEF ChatParts
    <3>2. IsChatPart(new)
      <4>. HIDE DEF old
      <4>. QED BY <3>1 DEF IsChatPart, ChatPartFields
    <3>3. parts[k] = IF k \notin keys THEN old ELSE new
      <4>. HIDE DEF filled, keys
      <4>. QED BY <2>1
    <3>. HIDE DEF parts, old, new
    <3>. QED BY <3>1, <3>2, <3>3
  <2>. HIDE DEF filled, parts, more, keys
  <2>4. t = Push([filled EXCEPT !.parts = parts], more)
    BY <1>1, <1>4
  <2>5. /\ DOMAIN t = SourceFields /\ t.err = "" /\ t.protocol = "chat" /\ ~t.finished
        /\ t.parts = parts /\ t.queue = filled.queue \o more
    BY <2>1, <2>4 DEF Push, Running, SourceFields
  <2>6. filled.queue = s.queue
    BY <1>4 DEF filled, AddToEach, Fails, Running, SourceFields
  <2>7. ChatParts(t)
    BY <2>2, <2>3, <2>5 DEF ChatParts
  <2>. QED BY <2>5, <2>6, <2>7 DEF more
<1>. QED BY <1>3, <1>4

\* The indexes of open or unfilled parts are finitely many naturals.
LEMMA PlacesListed ==
  ASSUME NEW s, ChatParts(s), NEW K, K \subseteq DOMAIN s.parts,
         \A k \in K : s.parts[k].part >= 0
  PROVE  LET q == InOrder({s.parts[k].part : k \in K})
         IN  \E n \in Nat : q = [i \in 1..n |-> q[i]]
<1>. DEFINE S == {s.parts[k].part : k \in K}
<1>. DEFINE q == InOrder(S)
<1>. DEFINE f == [k \in K |-> s.parts[k].part]
<1>1. f \in Surjection(K, S)
  BY DEF Surjection
<1>2. IsFiniteSet(K)
  BY FS_Subset DEF ChatParts
<1>3. S \subseteq Nat
  BY DEF ChatParts, IsChatPart
<1>. HIDE DEF S, f
<1>4. IsFiniteSet(S)
  BY <1>1, <1>2, FS_Surjection
<1>5. q \in [1..Cardinality(S) -> S] /\ Cardinality(S) \in Nat
  BY <1>3, <1>4, InOrderMembers, FS_CardinalityType
<1>. HIDE DEF q
<1>6. \E n \in Nat : q = [i \in 1..n |-> q[i]]
  BY <1>5
<1>. QED BY <1>6 DEF q, S

\* Closing a choice queues deltas and part ends only.
LEMMA ClosingNoEnd ==
  ASSUME NEW s, ChatParts(s), NEW c
  PROVE  NoEnd(Closing(s, c))
<1>. DEFINE B == {x \in DOMAIN s.parts : x[1] = c /\ Unfilled(s.parts[x])}
<1>. DEFINE O == {x \in DOMAIN s.parts : x[1] = c /\ s.parts[x].open}
<1>. DEFINE bare == InOrder({s.parts[k].part : k \in B})
<1>. DEFINE open == InOrder({s.parts[k].part : k \in O})
<1>1. \E n \in Nat : bare = [i \in 1..n |-> bare[i]]
  <2>1. B \subseteq DOMAIN s.parts /\ \A k \in B : s.parts[k].part >= 0
    BY DEF Unfilled
  <2>. HIDE DEF B
  <2>. QED BY <2>1, PlacesListed
<1>2. \E n \in Nat : open = [i \in 1..n |-> open[i]]
  <2>1. O \subseteq DOMAIN s.parts /\ \A k \in O : s.parts[k].part >= 0
    BY DEF ChatParts, IsChatPart
  <2>. HIDE DEF O
  <2>. QED BY <2>1, PlacesListed
<1>. DEFINE q == [i \in DOMAIN bare |-> PartDelta(c, bare[i], "tool", Braces)]
<1>. DEFINE r == [i \in DOMAIN open |-> PartEnd(c, open[i])]
<1>3. Closing(s, c) = q \o r
  BY DEF Closing
<1>. HIDE DEF bare, open
<1>4. NoEnd(q)
  <2>1. PICK n \in Nat : bare = [i \in 1..n |-> bare[i]]
    BY <1>1
  <2>2. DOMAIN bare = 1..n
    BY <2>1
  <2>3. q = [i \in 1..n |-> q[i]] /\ \A i \in 1..n : q[i].kind # "end"
    BY <2>2, PartEvents
  <2>. HIDE DEF q
  <2>. QED BY <2>3, NoEndList
<1>5. NoEnd(r)
  <2>1. PICK n \in Nat : open = [i \in 1..n |-> open[i]]
    BY <1>2
  <2>2. DOMAIN open = 1..n
    BY <2>1
  <2>3. r = [i \in 1..n |-> r[i]] /\ \A i \in 1..n : r[i].kind # "end"
    BY <2>2, PartEvents
  <2>. HIDE DEF r
  <2>. QED BY <2>3, NoEndList
<1>. HIDE DEF q, r
<1>. QED BY <1>3, <1>4, <1>5, NoEndSequences

\* So closing one choice keeps the source running.
LEMMA CloseOneRuns ==
  ASSUME NEW s, Running(s, "chat"), ChatParts(s), NEW c
  PROVE  ChatRuns(CloseChoices(s, <<c>>))
<1>. DEFINE t == CloseChoices(s, <<c>>)
<1>. DEFINE q == [i \in DOMAIN <<c>> |-> Closing(s, <<c>>[i])]
<1>1. q = [i \in 1..1 |-> q[i]] /\ q[1] = Closing(s, c)
  OBVIOUS
<1>2. \/ t.err # ""
      \/ /\ DOMAIN t = SourceFields /\ t.err = "" /\ t.protocol = "chat" /\ ~t.finished
         /\ ChatParts(t) /\ t.queue = s.queue \o FlattenSeq(q)
  BY CloseShape
<1>. HIDE DEF q, t
<1>3. Len(q) = 1
  BY <1>1, ListOf
<1>4. FlattenSeq(q) = Closing(s, c)
  BY <1>1, <1>3, FlattenOne
<1>5. NoEnd(s.queue \o FlattenSeq(q))
  BY <1>4, ClosingNoEnd, NoEndSequences DEF Running
<1>6. ChatRuns(t)
  BY <1>2, <1>5 DEF ChatRuns, Running
<1>. QED BY <1>6 DEF t

\* A source that has just finished, its end in the queue.
Finishing(t, p) ==
    DOMAIN t = SourceFields /\ t.err = "" /\ t.protocol = p /\ t.finished

\* A chunk never finishes a source.
LEMMA ChunkRuns ==
  ASSUME NEW s, Running(s, "chat"), ChatParts(s), NEW w, NEW calls
  PROVE  ChatRuns(ConsumeChunk(s, w, calls))
<1>. DEFINE begun == Start(s)
<1>. DEFINE seen  == [begun EXCEPT !.finish =
                        IF w.choice \in DOMAIN @ THEN @ ELSE Put(@, w.choice, "unknown")]
<1>. DEFINE delta == CASE w.slot \in {"text", "refusal"} ->
                            IF w.text = <<>> THEN seen ELSE ConsumeSimple(seen, w)
                       [] w.slot = "none" -> seen
                       [] OTHER -> ConsumeToolDelta(seen, w, calls)
<1>. DEFINE named == [delta EXCEPT !.finish[w.choice] = w.finish]
<1>1. ConsumeChunk(s, w, calls) =
          IF delta.err # "" \/ w.finish = "" THEN delta
          ELSE CloseChoices(named, <<w.choice>>)
  BY DEF ConsumeChunk
<1>2. Running(begun, "chat") /\ ChatParts(begun)
  BY StartRuns DEF ChatParts
<1>3. Running(seen, "chat") /\ ChatParts(seen)
  <2>. HIDE DEF begun
  <2>. QED BY <1>2 DEF Running, SourceFields, ChatParts
<1>4. ChatRuns(delta)
  <2>. HIDE DEF seen
  <2>1. ChatRuns(seen)
    BY <1>3 DEF ChatRuns
  <2>2. ChatRuns(ConsumeSimple(seen, w)) /\ ChatRuns(ConsumeToolDelta(seen, w, calls))
    BY <1>3, SimpleRuns, ToolDeltaRuns
  <2>3. delta \in {seen, ConsumeSimple(seen, w), ConsumeToolDelta(seen, w, calls)}
    OBVIOUS
  <2>. HIDE DEF delta
  <2>. QED BY <2>1, <2>2, <2>3
<1>. HIDE DEF delta
<1>5. CASE delta.err # "" \/ w.finish = ""
  <2>. HIDE DEF named
  <2>. QED BY <1>1, <1>4, <1>5
<1>6. CASE ~(delta.err # "" \/ w.finish = "")
  <2>1. Running(delta, "chat") /\ ChatParts(delta)
    BY <1>4, <1>6 DEF ChatRuns
  <2>2. Running(named, "chat") /\ ChatParts(named)
    BY <2>1 DEF Running, SourceFields, ChatParts
  <2>. HIDE DEF named
  <2>3. ChatRuns(CloseChoices(named, <<w.choice>>))
    BY <2>2, CloseOneRuns
  <2>. QED BY <1>1, <1>6, <2>3
<1>. QED BY <1>5, <1>6

\* Only the done event finishes a chat source.
LEMMA ChatConsumes ==
  ASSUME NEW s, Running(s, "chat"), ChatParts(s), NEW w, NEW calls,
         NEW t, t = ChatConsume(s, w, calls)
  PROVE  ChatRuns(t) \/ (w.type = "done" /\ Finishing(t, "chat"))
<1>1. ChatRuns(Fails(s, "protocol")) /\ ChatRuns(Fails(s, "provider"))
  BY GuardRuns DEF ChatRuns
<1>2. CASE w.type = "done"
  <2>. DEFINE choices == InOrder(DOMAIN s.finish)
  <2>. DEFINE closed  == CloseChoices(s, choices)
  <2>. DEFINE whole   == Push(closed, <<ResponseEnd(ChatFinishes(s, choices), 0)>>)
  <2>1. ChatComplete(s) = IF \E k \in DOMAIN s.parts : s.parts[k].part < 0
                            THEN Fails(s, "protocol")
                          ELSE IF closed.err # "" THEN closed
                          ELSE [whole EXCEPT !.finished = TRUE]
    BY DEF ChatComplete
  <2>2. closed.err # "" \/ (/\ DOMAIN closed = SourceFields /\ closed.err = ""
                            /\ closed.protocol = "chat")
    <3>. HIDE DEF choices
    <3>. QED BY CloseShape
  <2>3. t = Fails(s, "protocol") \/ t = ChatComplete(s)
    BY <1>2 DEF ChatConsume
  <2>. HIDE DEF closed
  <2>4. CASE closed.err # ""
    <3>1. ChatRuns(closed)
      BY <2>4 DEF ChatRuns
    <3>. HIDE DEF whole
    <3>. QED BY <1>1, <2>1, <2>3, <2>4, <3>1
  <2>5. CASE closed.err = ""
    <3>1. Finishing([whole EXCEPT !.finished = TRUE], "chat")
      <4>. HIDE DEF choices
      <4>. QED BY <2>2, <2>5 DEF Push, Finishing, SourceFields
    <3>. HIDE DEF whole
    <3>. QED BY <1>1, <1>2, <2>1, <2>3, <2>5, <3>1
  <2>. QED BY <2>4, <2>5
<1>3. CASE w.type = "error"
  BY <1>1, <1>3 DEF ChatConsume
<1>4. CASE w.type = "usage"
  <2>1. t = Start(s)
    BY <1>4 DEF ChatConsume
  <2>. QED BY <2>1, StartRuns DEF ChatRuns, ChatParts
<1>5. CASE w.type \notin {"done", "error", "usage"}
  <2>1. t = ConsumeChunk(s, w, calls)
    BY <1>5 DEF ChatConsume
  <2>. QED BY <2>1, ChunkRuns
<1>. QED BY <1>2, <1>3, <1>4, <1>5

-----------------------------------------------------------------------------
(* Anthropic.                                                                *)

FailsOrRuns(t, p) == t.err # "" \/ Running(t, p)

\* A block's start.
LEMMA BlockRuns ==
  ASSUME NEW s, Running(s, "anthropic"), NEW w, NEW calls
  PROVE  FailsOrRuns(AnthropicStartBlock(s, w, calls), "anthropic")
<1>. DEFINE isTool  == w.kind = "tool"
<1>. DEFINE ignored == w.kind \in {"redacted", "unknown"}
<1>. DEFINE block   == [kind |-> w.kind, open |-> TRUE, ignored |-> ignored,
                        had |-> FALSE, init |-> w.text,
                        text |-> IF isTool THEN <<>> ELSE w.text]
<1>. DEFINE guarded == IF isTool THEN GuardStart(s, w.index) ELSE s
<1>. DEFINE opened  == [guarded EXCEPT !.parts = Put(@, w.index, block),
                                       !.state = @ \/ w.kind \in {"reasoning", "redacted"}]
<1>. DEFINE q == <<PartStart(0, w.index, w.kind)>> \o
                 (IF isTool \/ w.text = <<>> THEN <<>>
                    ELSE <<PartDelta(0, w.index, w.kind, w.text)>>)
<1>1. AnthropicStartBlock(s, w, calls) \in
          {Fails(s, "protocol"), Fails(s, "limit"), opened, Push(opened, q)}
  BY DEF AnthropicStartBlock
<1>2. Running(guarded, "anthropic")
  BY GuardRuns
<1>3. Running(opened, "anthropic")
  <2>. HIDE DEF guarded, block
  <2>. QED BY <1>2 DEF Running, SourceFields
<1>4. NoEnd(q)
  BY PartEvents, NoEndSequences
<1>. HIDE DEF opened, q
<1>5. Running(Push(opened, q), "anthropic")
  BY <1>3, <1>4, PushRuns
<1>. QED BY <1>1, <1>3, <1>5, GuardRuns DEF FailsOrRuns

\* A delta.
LEMMA AnthropicDeltaRuns ==
  ASSUME NEW s, Running(s, "anthropic"), NEW w
  PROVE  FailsOrRuns(AnthropicDelta(s, w), "anthropic")
<1>. DEFINE block    == s.parts[w.index]
<1>. DEFINE counted  == IF w.kind = "tool" THEN AddArguments(s, w.index, Len(w.text)) ELSE s
<1>. DEFINE extended == [counted EXCEPT
                            !.parts[w.index].text = IF w.kind = block.kind THEN @ \o w.text ELSE @,
                            !.parts[w.index].had  = @ \/ w.kind = "tool"]
<1>. DEFINE q == <<PartDelta(0, w.index, w.kind, w.text)>>
<1>1. AnthropicDelta(s, w) =
          IF w.index \notin DOMAIN s.parts \/ ~block.open THEN Fails(s, "protocol")
          ELSE IF block.ignored \/ w.kind = "signature" THEN s
          ELSE IF w.kind = "tool" /\ w.text = <<>> THEN s
          ELSE IF counted.err # "" THEN counted
          ELSE Push(extended, q)
  BY DEF AnthropicDelta
<1>2. FailsOrRuns(counted, "anthropic")
  <2>1. FailsOrKeeps(AddArguments(s, w.index, Len(w.text)), s, "anthropic")
    BY ArgumentsRun
  <2>2. counted = s \/ counted = AddArguments(s, w.index, Len(w.text))
    OBVIOUS
  <2>. HIDE DEF counted
  <2>. QED BY <2>1, <2>2 DEF FailsOrRuns, FailsOrKeeps
<1>3. NoEnd(q)
  BY PartEvents
<1>. HIDE DEF counted, q, block
<1>4. CASE counted.err # ""
  <2>1. AnthropicDelta(s, w) \in {Fails(s, "protocol"), s, counted}
    <3>. HIDE DEF extended
    <3>. QED BY <1>1, <1>4
  <2>. QED BY <1>2, <2>1, GuardRuns DEF FailsOrRuns
<1>5. CASE counted.err = ""
  <2>1. Running(counted, "anthropic")
    BY <1>2, <1>5 DEF FailsOrRuns
  <2>2. Running(extended, "anthropic")
    BY <2>1 DEF Running, SourceFields
  <2>. HIDE DEF extended
  <2>3. Running(Push(extended, q), "anthropic")
    BY <1>3, <2>2, PushRuns
  <2>4. AnthropicDelta(s, w) \in {Fails(s, "protocol"), s, Push(extended, q)}
    BY <1>1, <1>5
  <2>. QED BY <2>3, <2>4, GuardRuns DEF FailsOrRuns
<1>. QED BY <1>4, <1>5

\* A block's stop.
LEMMA AnthropicStopBlockRuns ==
  ASSUME NEW s, Running(s, "anthropic"), NEW w
  PROVE  FailsOrRuns(AnthropicStopBlock(s, w), "anthropic")
<1>. DEFINE block  == s.parts[w.index]
<1>. DEFINE bare   == block.kind = "tool" /\ ~block.had
<1>. DEFINE args   == Filled([kind |-> "tool", text |-> block.init]).text
<1>. DEFINE filled == IF bare THEN AddArguments(s, w.index, Len(args)) ELSE s
<1>. DEFINE stopped == [filled EXCEPT !.parts[w.index].open = FALSE,
                                      !.parts[w.index].text = IF bare THEN block.init ELSE @]
<1>. DEFINE q == IF block.ignored THEN <<>>
                 ELSE (IF bare THEN <<PartDelta(0, w.index, "tool", args)>> ELSE <<>>)
                      \o <<PartEnd(0, w.index)>>
<1>1. AnthropicStopBlock(s, w) =
          IF w.index \notin DOMAIN s.parts \/ ~block.open THEN Fails(s, "protocol")
          ELSE IF filled.err # "" THEN filled ELSE Push(stopped, q)
  BY DEF AnthropicStopBlock
<1>2. FailsOrRuns(filled, "anthropic")
  <2>1. FailsOrKeeps(AddArguments(s, w.index, Len(args)), s, "anthropic")
    BY ArgumentsRun
  <2>2. filled = s \/ filled = AddArguments(s, w.index, Len(args))
    OBVIOUS
  <2>. HIDE DEF filled, args
  <2>. QED BY <2>1, <2>2 DEF FailsOrRuns, FailsOrKeeps
<1>3. NoEnd(q)
  BY PartEvents, NoEndSequences
<1>. HIDE DEF filled, q, block, bare
<1>4. CASE filled.err # ""
  <2>1. AnthropicStopBlock(s, w) \in {Fails(s, "protocol"), filled}
    <3>. HIDE DEF stopped
    <3>. QED BY <1>1, <1>4
  <2>. QED BY <1>2, <2>1, GuardRuns DEF FailsOrRuns
<1>5. CASE filled.err = ""
  <2>1. Running(filled, "anthropic")
    BY <1>2, <1>5 DEF FailsOrRuns
  <2>2. Running(stopped, "anthropic")
    BY <2>1 DEF Running, SourceFields
  <2>. HIDE DEF stopped
  <2>3. Running(Push(stopped, q), "anthropic")
    BY <1>3, <2>2, PushRuns
  <2>4. AnthropicStopBlock(s, w) \in {Fails(s, "protocol"), Push(stopped, q)}
    BY <1>1, <1>5
  <2>. QED BY <2>3, <2>4, GuardRuns DEF FailsOrRuns
<1>. QED BY <1>4, <1>5

\* Only the stop of the message finishes an Anthropic source.
LEMMA AnthropicConsumes ==
  ASSUME NEW s, Running(s, "anthropic"), NEW w, NEW calls,
         NEW t, t = AnthropicConsume(s, w, calls)
  PROVE  \/ FailsOrRuns(t, "anthropic")
         \/ w.type = "done" /\ Finishing(t, "anthropic")
<1>1. \A why : why # "" => FailsOrRuns(Fails(s, why), "anthropic")
  BY GuardRuns DEF FailsOrRuns
<1>2. FailsOrRuns(s, "anthropic") /\ FailsOrRuns(Start(s), "anthropic")
  BY StartRuns DEF FailsOrRuns
<1>3. /\ FailsOrRuns(AnthropicStartBlock(s, w, calls), "anthropic")
      /\ FailsOrRuns(AnthropicDelta(s, w), "anthropic")
      /\ FailsOrRuns(AnthropicStopBlock(s, w), "anthropic")
  BY BlockRuns, AnthropicDeltaRuns, AnthropicStopBlockRuns
<1>4. FailsOrRuns([s EXCEPT !.finish = Put(@, 0, w.finish)], "anthropic")
  BY DEF Running, SourceFields, FailsOrRuns
<1>5. CASE w.type = "done"
  <2>. DEFINE ends  == <<[candidate |-> 0, reason |-> FinishOf(s, 0),
                          state |-> Bare(AnthropicState(s))]>>
  <2>. DEFINE whole == Push(s, <<ResponseEnd(ends, 0)>>)
  <2>1. t \in {Fails(s, "protocol"), Fails(s, "limit"), [whole EXCEPT !.finished = TRUE]}
    BY <1>5 DEF AnthropicConsume, AnthropicStop
  <2>2. Finishing([whole EXCEPT !.finished = TRUE], "anthropic")
    <3>. HIDE DEF ends
    <3>. QED BY DEF Push, Running, SourceFields, Finishing
  <2>. HIDE DEF whole
  <2>. QED BY <1>1, <1>5, <2>1, <2>2
<1>6. CASE w.type # "done"
  <2>1. t \in {Fails(s, "protocol"), Fails(s, "provider"), s, Start(s),
               AnthropicStartBlock(s, w, calls), AnthropicDelta(s, w),
               AnthropicStopBlock(s, w), [s EXCEPT !.finish = Put(@, 0, w.finish)]}
    BY <1>6 DEF AnthropicConsume
  <2>2. FailsOrRuns(t, "anthropic")
    BY <1>1, <1>2, <1>3, <1>4, <2>1
  <2>. QED BY <2>2
<1>. QED BY <1>5, <1>6

-----------------------------------------------------------------------------
(* Responses.                                                                *)

\* A part's start.
LEMMA ResponsesStartRuns ==
  ASSUME NEW s, Running(s, "responses"), NEW key
  PROVE  Running(ResponsesStartPart(s, key), "responses")
<1>. DEFINE p    == Cardinality(DOMAIN s.parts)
<1>. DEFINE part == [part |-> p, kind |-> key[1], open |-> TRUE, had |-> FALSE, value |-> <<>>]
<1>. DEFINE t    == [s EXCEPT !.parts = Put(@, key, part)]
<1>. DEFINE q    == <<PartStart(0, p, key[1])>>
<1>1. ResponsesStartPart(s, key) = IF key \in DOMAIN s.parts THEN s ELSE Push(t, q)
  BY DEF ResponsesStartPart
<1>2. Running(t, "responses")
  <2>. HIDE DEF part, p
  <2>. QED BY DEF Running, SourceFields
<1>3. NoEnd(q)
  BY PartEvents
<1>. HIDE DEF t, q
<1>4. Running(Push(t, q), "responses")
  BY <1>2, <1>3, PushRuns
<1>. QED BY <1>1, <1>4

\* A delta.
LEMMA ResponsesDeltaRuns ==
  ASSUME NEW s, FailsOrRuns(s, "responses"), NEW key, NEW text
  PROVE  FailsOrRuns(ResponsesDelta(s, key, text), "responses")
<1>. DEFINE t == [s EXCEPT !.parts[key].had = TRUE, !.parts[key].value = @ \o text]
<1>. DEFINE q == <<PartDelta(0, s.parts[key].part, key[1], text)>>
<1>1. ResponsesDelta(s, key, text) =
          IF s.err # "" \/ key \notin DOMAIN s.parts \/ ~s.parts[key].open THEN s
          ELSE Push(t, q)
  BY DEF ResponsesDelta
<1>2. CASE s.err # ""
  <2>. HIDE DEF t, q
  <2>. QED BY <1>1, <1>2
<1>3. CASE s.err = ""
  <2>1. Running(s, "responses")
    BY <1>3 DEF FailsOrRuns
  <2>2. Running(t, "responses")
    BY <2>1 DEF Running, SourceFields
  <2>3. NoEnd(q)
    BY PartEvents
  <2>. HIDE DEF t, q
  <2>4. Running(Push(t, q), "responses")
    BY <2>2, <2>3, PushRuns
  <2>. QED BY <1>1, <2>1, <2>4 DEF FailsOrRuns
<1>. QED BY <1>2, <1>3

\* A delta of arguments.
LEMMA ResponsesToolDeltaRuns ==
  ASSUME NEW s, Running(s, "responses"), NEW key, NEW text
  PROVE  /\ FailsOrRuns(ResponsesToolDelta(s, key, text), "responses")
         /\ FailsOrRuns(ResponsesAdd(s, key, text), "responses")
<1>. DEFINE t == AddArguments(s, key[2], Len(text))
<1>1. FailsOrKeeps(t, s, "responses")
  BY ArgumentsRun
<1>2. ResponsesToolDelta(s, key, text) = ResponsesDelta(t, key, text)
  BY DEF ResponsesToolDelta
<1>. HIDE DEF t
<1>3. FailsOrRuns(t, "responses") /\ FailsOrRuns(s, "responses")
  BY <1>1 DEF FailsOrKeeps, FailsOrRuns
<1>4. /\ FailsOrRuns(ResponsesDelta(t, key, text), "responses")
      /\ FailsOrRuns(ResponsesDelta(s, key, text), "responses")
  BY <1>3, ResponsesDeltaRuns
<1>. QED BY <1>2, <1>4 DEF ResponsesAdd

\* A part's end.
LEMMA ResponsesEndRuns ==
  ASSUME NEW s, FailsOrRuns(s, "responses"), NEW key
  PROVE  FailsOrRuns(ResponsesEndPart(s, key), "responses")
<1>. DEFINE filled == IF key[1] = "tool" /\ ~s.parts[key].had
                        THEN ResponsesToolDelta(s, key, Braces) ELSE s
<1>. DEFINE t == [filled EXCEPT !.parts[key].open = FALSE]
<1>. DEFINE q == <<PartEnd(0, filled.parts[key].part)>>
<1>1. ResponsesEndPart(s, key) =
          IF s.err # "" \/ key \notin DOMAIN s.parts \/ ~s.parts[key].open THEN s
          ELSE IF filled.err # "" THEN filled ELSE Push(t, q)
  BY DEF ResponsesEndPart
<1>2. CASE s.err # ""
  <2>. HIDE DEF filled, t, q
  <2>. QED BY <1>1, <1>2
<1>3. CASE s.err = ""
  <2>1. Running(s, "responses")
    BY <1>3 DEF FailsOrRuns
  <2>2. FailsOrRuns(filled, "responses")
    BY <2>1, ResponsesToolDeltaRuns
  <2>3. NoEnd(q)
    BY PartEvents
  <2>. HIDE DEF filled, q
  <2>4. CASE filled.err # ""
    <3>. HIDE DEF t
    <3>. QED BY <1>1, <2>2, <2>4
  <2>5. CASE filled.err = ""
    <3>1. Running(t, "responses")
      BY <2>2, <2>5 DEF FailsOrRuns, Running, SourceFields
    <3>. HIDE DEF t
    <3>2. Running(Push(t, q), "responses")
      BY <2>3, <3>1, PushRuns
    <3>. QED BY <1>1, <2>2, <3>2 DEF FailsOrRuns
  <2>. QED BY <2>4, <2>5
<1>. QED BY <1>2, <1>3

\* The text of a part that says it is done.
LEMMA FinishValueRuns ==
  ASSUME NEW s, Running(s, "responses"), NEW key, NEW full
  PROVE  FailsOrRuns(FinishValuePart(s, key, full), "responses")
<1>. DEFINE begun   == ResponsesStartPart(s, key)
<1>. DEFINE current == begun.parts[key].value
<1>. DEFINE missing == SubSeq(full, Len(current) + 1, Len(full))
<1>. DEFINE added   == IF missing = <<>> THEN begun ELSE ResponsesAdd(begun, key, missing)
<1>1. FinishValuePart(s, key, full) \in
          {begun, Fails(begun, "protocol"), ResponsesEndPart(added, key)}
  BY DEF FinishValuePart
<1>2. Running(begun, "responses")
  BY ResponsesStartRuns
<1>. HIDE DEF begun, missing
<1>3. FailsOrRuns(ResponsesAdd(begun, key, missing), "responses")
  BY <1>2, ResponsesToolDeltaRuns
<1>4. FailsOrRuns(added, "responses")
  BY <1>2, <1>3 DEF FailsOrRuns
<1>. HIDE DEF added
<1>5. FailsOrRuns(ResponsesEndPart(added, key), "responses")
  BY <1>4, ResponsesEndRuns
<1>. QED BY <1>1, <1>2, <1>5, GuardRuns DEF FailsOrRuns

\* The terminal payload ends the open parts, and then fails or finishes.
LEMMA ResponsesCompletes ==
  ASSUME NEW s, Running(s, "responses"), NEW w, NEW calls,
         NEW t, t = ResponsesComplete(s, w, calls)
  PROVE  t.err # "" \/ Finishing(t, "responses")
<1>. DEFINE open   == {k \in DOMAIN s.parts : s.parts[k].open}
<1>. DEFINE bare   == {k \in open : Unfilled(s.parts[k])}
<1>. DEFINE filled == AddToEach(s, {k[2] : k \in bare}, Len(Braces))
<1>. DEFINE parts  == [k \in DOMAIN s.parts |->
                          IF k \notin open THEN s.parts[k]
                          ELSE [s.parts[k] EXCEPT !.open = FALSE, !.had = @ \/ k \in bare,
                                                  !.value = IF k \in bare THEN Braces ELSE @]]
<1>. DEFINE closed == ResponsesEndParts(s)
<1>. DEFINE tools  == Cardinality({i \in DOMAIN w.output : w.output[i].kind = "tool"})
<1>. DEFINE whole  == Push(closed, <<ResponseEnd(ResponsesFinishes(w, tools), 0)>>)
<1>1. FailsOrKeeps(filled, s, "responses")
  BY ArgumentsRun
<1>2. closed = IF filled.err # "" THEN filled
               ELSE Push([filled EXCEPT !.parts = parts], ResponsesClosing(s))
  BY DEF ResponsesEndParts
<1>3. \/ closed.err # ""
      \/ DOMAIN closed = SourceFields /\ closed.err = "" /\ closed.protocol = "responses"
  <2>. HIDE DEF filled, parts, closed
  <2>. QED BY <1>1, <1>2 DEF FailsOrKeeps, Push, Running, SourceFields
<1>4. t = IF closed.err # "" THEN closed
          ELSE IF \/ ~Decodable(w.output) \/ tools > calls \/ StateTooLarge(ResponsesState(w))
                  \/ AccumulatedContent(closed) # ResponsesDecode(w.output)
            THEN Fails(closed, "protocol")
          ELSE [whole EXCEPT !.finished = TRUE]
  BY DEF ResponsesComplete
<1>. HIDE DEF closed, tools
<1>5. CASE closed.err # ""
  <2>. HIDE DEF whole
  <2>. QED BY <1>4, <1>5
<1>6. CASE closed.err = ""
  <2>1. Fails(closed, "protocol").err # ""
    BY <1>3, <1>6 DEF Fails, SourceFields
  <2>2. Finishing([whole EXCEPT !.finished = TRUE], "responses")
    BY <1>3, <1>6 DEF Push, Finishing, SourceFields
  <2>. HIDE DEF whole
  <2>. QED BY <1>4, <1>6, <2>1, <2>2
<1>. QED BY <1>5, <1>6

\* Only the completed event finishes a Responses source.
LEMMA ResponsesConsumes ==
  ASSUME NEW s, Running(s, "responses"), NEW w, NEW calls,
         NEW t, t = ResponsesConsume(s, w, calls)
  PROVE  \/ FailsOrRuns(t, "responses")
         \/ w.type = "completed" /\ Finishing(t, "responses")
<1>. DEFINE key   == <<w.kind, w.index>>
<1>. DEFINE begun == ResponsesStartPart(s, key)
<1>. DEFINE named == Filled([kind |-> "tool", text |-> w.text]).text
<1>1. \A why : why # "" => FailsOrRuns(Fails(s, why), "responses")
  BY GuardRuns DEF FailsOrRuns
<1>2. FailsOrRuns(s, "responses") /\ FailsOrRuns(Start(s), "responses")
  BY StartRuns DEF FailsOrRuns
<1>3. CASE w.type = "completed"
  <2>1. t = ResponsesComplete(s, w, calls) \/ t = Fails(s, "protocol")
    BY <1>3 DEF ResponsesConsume
  <2>2. t = ResponsesComplete(s, w, calls) => t.err # "" \/ Finishing(t, "responses")
    BY ResponsesCompletes
  <2>. QED BY <1>1, <1>3, <2>1, <2>2 DEF FailsOrRuns
<1>4. CASE w.type = "item"
  <2>. DEFINE guarded == GuardStart(s, w.index)
  <2>1. t \in {Fails(s, "protocol"), Fails(s, "limit"), ResponsesStartPart(guarded, key)}
    BY <1>4 DEF ResponsesConsume
  <2>2. Running(guarded, "responses")
    BY GuardRuns
  <2>. HIDE DEF guarded, key
  <2>3. Running(ResponsesStartPart(guarded, key), "responses")
    BY <2>2, ResponsesStartRuns
  <2>. QED BY <1>1, <2>1, <2>3 DEF FailsOrRuns
<1>5. CASE w.type \in {"added", "delta"} /\ w.kind # "tool"
  <2>1. t \in {begun, ResponsesDelta(begun, key, w.text)}
    BY <1>5 DEF ResponsesConsume
  <2>2. FailsOrRuns(begun, "responses")
    BY ResponsesStartRuns DEF FailsOrRuns
  <2>. HIDE DEF begun, key
  <2>3. FailsOrRuns(ResponsesDelta(begun, key, w.text), "responses")
    BY <2>2, ResponsesDeltaRuns
  <2>. QED BY <2>1, <2>2, <2>3
<1>6. CASE w.type = "delta" /\ w.kind = "tool"
  <2>1. t \in {Fails(s, "protocol"), ResponsesToolDelta(s, key, w.text)}
    BY <1>6 DEF ResponsesConsume
  <2>. HIDE DEF key
  <2>2. FailsOrRuns(ResponsesToolDelta(s, key, w.text), "responses")
    BY ResponsesToolDeltaRuns
  <2>. QED BY <1>1, <2>1, <2>2
<1>7. CASE w.type = "done"
  <2>1. t \in {Fails(s, "protocol"), FinishValuePart(s, key, w.text)}
    BY <1>7 DEF ResponsesConsume
  <2>. HIDE DEF key
  <2>2. FailsOrRuns(FinishValuePart(s, key, w.text), "responses")
    BY FinishValueRuns
  <2>. QED BY <1>1, <2>1, <2>2
<1>8. CASE w.type = "itemDone"
  <2>. DEFINE added == ResponsesToolDelta(s, key, named)
  <2>1. t \in {ResponsesEndPart(added, key), ResponsesEndPart(s, key)}
    BY <1>8 DEF ResponsesConsume
  <2>. HIDE DEF key, named
  <2>2. FailsOrRuns(added, "responses")
    BY ResponsesToolDeltaRuns
  <2>. HIDE DEF added
  <2>3. /\ FailsOrRuns(ResponsesEndPart(added, key), "responses")
        /\ FailsOrRuns(ResponsesEndPart(s, key), "responses")
    BY <1>2, <2>2, ResponsesEndRuns
  <2>. QED BY <2>1, <2>3
<1>9. CASE /\ w.type \notin {"completed", "item", "done", "itemDone"}
           /\ ~(w.type \in {"added", "delta"} /\ w.kind # "tool")
           /\ ~(w.type = "delta" /\ w.kind = "tool")
  <2>1. t \in {s, Start(s), Fails(s, "protocol"), Fails(s, "provider")}
    <3>1. CASE w.type = "start"
      BY <3>1 DEF ResponsesConsume
    <3>2. CASE w.type \in {"failed", "queued"}
      BY <3>2 DEF ResponsesConsume
    <3>3. CASE w.type \notin {"start", "failed", "queued"}
      BY <1>9, <3>3 DEF ResponsesConsume
    <3>. QED BY <3>1, <3>2, <3>3
  <2>. QED BY <1>1, <1>2, <2>1
<1>. QED BY <1>3, <1>4, <1>5, <1>6, <1>7, <1>8, <1>9

-----------------------------------------------------------------------------
(* Gemini: nothing a chunk's parts do touches the finish reasons.            *)

\* What a step that may fail leaves of a source with those finish reasons.
GoogleKeeps(t, finish) == t.err # "" \/ (Running(t, "google") /\ t.finish = finish)

\* Closing the active part.
LEMMA CloseActiveRuns ==
  ASSUME NEW s, Running(s, "google"), NEW c
  PROVE  Running(CloseActivePart(s, c), "google") /\ CloseActivePart(s, c).finish = s.finish
<1>. DEFINE key    == <<c, At(s.active, c)>>
<1>. DEFINE off    == [s EXCEPT !.active = Put(@, c, -1)]
<1>. DEFINE closed == [off EXCEPT !.parts[key].open = FALSE]
<1>. DEFINE q      == <<PartEnd(c, key[2])>>
<1>1. CloseActivePart(s, c) \in {s, off, Push(closed, q)}
  BY DEF CloseActivePart
<1>2. Running(off, "google") /\ off.finish = s.finish
  BY DEF Running, SourceFields
<1>. HIDE DEF off
<1>3. Running(closed, "google") /\ closed.finish = s.finish
  BY <1>2 DEF Running, SourceFields
<1>4. NoEnd(q)
  BY PartEvents
<1>. HIDE DEF closed, q
<1>5. Running(Push(closed, q), "google") /\ Push(closed, q).finish = s.finish
  BY <1>3, <1>4, PushRuns
<1>. QED BY <1>1, <1>2, <1>5

\* Text and reasoning.
LEMMA GoogleTextRuns ==
  ASSUME NEW s, Running(s, "google"), NEW c, NEW b, NEW mayContinue
  PROVE  GoogleKeeps(GoogleText(s, c, b, mayContinue), s.finish)
<1>. DEFINE key    == <<c, At(s.active, c)>>
<1>. DEFINE closed == CloseActivePart(s, c)
<1>. DEFINE p      == GoogleNext(s, c)
<1>. DEFINE delta(n) == IF b.text = <<>> THEN <<>> ELSE <<PartDelta(c, n, b.kind, b.text)>>
<1>. DEFINE longer == [s EXCEPT !.parts[key] = Extended(@, b)]
<1>. DEFINE opened == [closed EXCEPT !.parts  = Put(@, <<c, p>>, GooglePart(b.kind, TRUE, b)),
                                     !.active = Put(@, c, p), !.last = Put(@, c, p)]
<1>. DEFINE q == <<PartStart(c, p, b.kind)>> \o delta(p)
<1>. DEFINE r == delta(key[2])
<1>1. GoogleText(s, c, b, mayContinue) \in {Push(longer, r), Push(opened, q)}
  BY DEF GoogleText
<1>2. Running(longer, "google") /\ longer.finish = s.finish
  BY DEF Running, SourceFields
<1>3. Running(closed, "google") /\ closed.finish = s.finish
  BY CloseActiveRuns
<1>4. Running(opened, "google") /\ opened.finish = s.finish
  <2>. HIDE DEF closed, p
  <2>. QED BY <1>3 DEF Running, SourceFields
<1>5. NoEnd(r) /\ NoEnd(q)
  <2>1. \A n : NoEnd(delta(n))
    BY PartEvents, NoEndSequences
  <2>. HIDE DEF p, delta
  <2>. QED BY <2>1, PartEvents, NoEndSequences
<1>. HIDE DEF longer, opened, q, r
<1>6. Running(Push(longer, r), "google") /\ Push(longer, r).finish = s.finish
  BY <1>2, <1>5, PushRuns
<1>7. Running(Push(opened, q), "google") /\ Push(opened, q).finish = s.finish
  BY <1>4, <1>5, PushRuns
<1>. QED BY <1>1, <1>6, <1>7 DEF GoogleKeeps

\* A tool call.
LEMMA GoogleToolRuns ==
  ASSUME NEW s, Running(s, "google"), NEW c, NEW b, NEW calls
  PROVE  GoogleKeeps(GoogleTool(s, c, b, calls), s.finish)
<1>. DEFINE p       == GoogleNext(s, c)
<1>. DEFINE key     == <<c, p>>
<1>. DEFINE guarded == GuardStart(s, key)
<1>. DEFINE counted == AddArguments(guarded, key, Len(b.text))
<1>. DEFINE closed  == CloseActivePart(counted, c)
<1>. DEFINE opened  == [closed EXCEPT !.parts = Put(@, key, GooglePart("tool", FALSE, b)),
                                      !.last  = Put(@, c, p)]
<1>. DEFINE q == <<PartStart(c, p, "tool"), PartDelta(c, p, "tool", b.text), PartEnd(c, p)>>
<1>1. GoogleTool(s, c, b, calls) =
          IF ~IsJSONObject(b.text) THEN Fails(s, "protocol")
          ELSE IF ~CanStart(s, key, calls) \/ closed.err # "" THEN Fails(s, "limit")
          ELSE Push(opened, q)
  BY DEF GoogleTool
<1>2. Running(guarded, "google") /\ guarded.finish = s.finish
  BY GuardRuns
<1>3. FailsOrKeeps(counted, guarded, "google") /\ (counted.err # "" => counted = Fails(guarded, "limit"))
  <2>. HIDE DEF guarded, key
  <2>1. FailsOrKeeps(counted, guarded, "google")
    BY <1>2, ArgumentsRun
  <2>2. counted.err # "" => counted = Fails(guarded, "limit")
    BY <1>2 DEF AddArguments, AddToEach, Running, SourceFields
  <2>. QED BY <2>1, <2>2
<1>4. CASE counted.err # ""
  <2>1. counted = Fails(guarded, "limit")
    BY <1>3, <1>4
  <2>2. DOMAIN counted = SourceFields /\ counted.err = "limit"
    <3>. HIDE DEF guarded, counted
    <3>. QED BY <1>2, <2>1 DEF Fails, Running, SourceFields
  <2>3. closed.err # ""
    <3>. HIDE DEF counted
    <3>. QED BY <2>2 DEF CloseActivePart, Push, SourceFields
  <2>4. GoogleTool(s, c, b, calls) \in {Fails(s, "protocol"), Fails(s, "limit")}
    <3>. HIDE DEF closed, opened, q
    <3>. QED BY <1>1, <2>3
  <2>. QED BY <2>4, GuardRuns DEF GoogleKeeps
<1>5. CASE counted.err = ""
  <2>1. Running(counted, "google") /\ counted.finish = s.finish
    <3>. HIDE DEF counted
    <3>. QED BY <1>2, <1>3, <1>5 DEF FailsOrKeeps
  <2>. HIDE DEF counted
  <2>2. Running(closed, "google") /\ closed.finish = s.finish
    BY <2>1, CloseActiveRuns
  <2>. HIDE DEF closed, key
  <2>3. Running(opened, "google") /\ opened.finish = s.finish
    BY <2>2 DEF Running, SourceFields
  <2>4. NoEnd(q)
    <3>1. q = <<PartStart(c, p, "tool")>> \o <<PartDelta(c, p, "tool", b.text)>>
              \o <<PartEnd(c, p)>>
      OBVIOUS
    <3>. HIDE DEF p
    <3>. QED BY <3>1, PartEvents, NoEndSequences
  <2>. HIDE DEF opened, q
  <2>5. Running(Push(opened, q), "google") /\ Push(opened, q).finish = s.finish
    BY <2>3, <2>4, PushRuns
  <2>6. GoogleTool(s, c, b, calls) \in {Fails(s, "protocol"), Fails(s, "limit"), Push(opened, q)}
    BY <1>1
  <2>. QED BY <2>5, <2>6, GuardRuns DEF GoogleKeeps
<1>. QED BY <1>4, <1>5

\* One part of a chunk.
LEMMA ConsumePartRuns ==
  ASSUME NEW s, NEW finish, GoogleKeeps(s, finish), NEW c, NEW b, NEW first, NEW calls
  PROVE  GoogleKeeps(ConsumePart(s, c, b, first, calls), finish)
<1>1. CASE s.err # ""
  BY <1>1 DEF ConsumePart
<1>2. CASE s.err = ""
  <2>1. Running(s, "google") /\ s.finish = finish
    BY <1>2 DEF GoogleKeeps
  <2>2. GoogleKeeps(GoogleSignature(s, c, b), finish)
    <3>. DEFINE p   == IF At(s.active, c) >= 0 THEN At(s.active, c) ELSE At(s.last, c)
    <3>. DEFINE new == GoogleNext(s, c)
    <3>1. GoogleSignature(s, c, b) =
              IF p >= 0 THEN [s EXCEPT !.parts[<<c, p>>].signed = TRUE]
              ELSE [s EXCEPT !.parts = Put(@, <<c, new>>, GooglePart("signature", FALSE, b)),
                             !.last  = Put(@, c, new)]
      BY DEF GoogleSignature
    <3>. HIDE DEF p, new
    <3>2. CASE p >= 0
      BY <2>1, <3>1, <3>2 DEF GoogleKeeps, Running, SourceFields
    <3>3. CASE ~(p >= 0)
      BY <2>1, <3>1, <3>3 DEF GoogleKeeps, Running, SourceFields
    <3>. QED BY <3>2, <3>3
  <2>3. /\ GoogleKeeps(GoogleTool(s, c, b, calls), finish)
        /\ GoogleKeeps(GoogleText(s, c, b, first), finish)
    BY <2>1, GoogleToolRuns, GoogleTextRuns
  <2>4. ConsumePart(s, c, b, first, calls) \in
            {GoogleTool(s, c, b, calls), GoogleSignature(s, c, b), GoogleText(s, c, b, first)}
    BY <1>2 DEF ConsumePart
  <2>. QED BY <2>2, <2>3, <2>4
<1>. QED BY <1>1, <1>2

\* What the local function of ConsumeParts is: the source after the first i parts.
PartRead(s, i, w, calls) == ConsumePart(s, w.candidate, w.parts[i], i = 1, calls)

ReadBy(f, n, s, w, calls) ==
    f = [i \in 0..n |-> IF i = 0 THEN s ELSE PartRead(f[i - 1], i, w, calls)]

\* There is such a function for every number of parts.
LEMMA ReadExists ==
  ASSUME NEW s, NEW w, NEW calls
  PROVE  \A n \in Nat : \E f : ReadBy(f, n, s, w, calls)
<1>. DEFINE S == {n \in Nat : \E f : ReadBy(f, n, s, w, calls)}
<1>1. 0 \in S
  <2>. DEFINE f == [i \in 0..0 |-> s]
  <2>1. f = [i \in 0..0 |-> IF i = 0 THEN s ELSE PartRead(f[i - 1], i, w, calls)]
    OBVIOUS
  <2>2. ReadBy(f, 0, s, w, calls)
    BY <2>1 DEF ReadBy
  <2>. QED BY <2>2
<1>2. ASSUME NEW n \in Nat, n \in S PROVE n + 1 \in S
  <2>1. PICK f : ReadBy(f, n, s, w, calls)
    BY <1>2
  <2>. DEFINE v == PartRead(f[n], n + 1, w, calls)
  <2>. DEFINE g == [i \in 0..(n + 1) |-> IF i = n + 1 THEN v ELSE f[i]]
  <2>2. \A i \in 0..n : f[i] = IF i = 0 THEN s ELSE PartRead(f[i - 1], i, w, calls)
    BY <2>1 DEF ReadBy
  <2>3. ASSUME NEW i \in 0..(n + 1)
        PROVE  g[i] = IF i = 0 THEN s ELSE PartRead(g[i - 1], i, w, calls)
    <3>1. CASE i = n + 1
      <4>1. g[i] = v /\ i # 0
        BY <3>1
      <4>2. i - 1 = n /\ g[n] = f[n]
        BY <3>1
      <4>. HIDE DEF g
      <4>. QED BY <3>1, <4>1, <4>2
    <3>2. CASE i # n + 1
      <4>1. i \in 0..n
        BY <3>2
      <4>2. g[i] = f[i]
        BY <3>2
      <4>3. i # 0 => g[i - 1] = f[i - 1]
        BY <4>1
      <4>4. f[i] = IF i = 0 THEN s ELSE PartRead(f[i - 1], i, w, calls)
        BY <2>2, <4>1
      <4>. HIDE DEF g
      <4>. QED BY <4>2, <4>3, <4>4
    <3>. QED BY <3>1, <3>2
  <2>4. g = [i \in 0..(n + 1) |-> IF i = 0 THEN s ELSE PartRead(g[i - 1], i, w, calls)]
    <3>1. g = [i \in 0..(n + 1) |-> g[i]]
      OBVIOUS
    <3>. HIDE DEF g
    <3>. QED BY <3>1, <2>3
  <2>5. ReadBy(g, n + 1, s, w, calls)
    BY <2>4 DEF ReadBy
  <2>. HIDE DEF g
  <2>. QED BY <2>5
<1>. HIDE DEF S
<1>3. \A n \in Nat : n \in S
  BY <1>1, <1>2, SetInduction
<1>. QED BY <1>3 DEF S

\* The parts of a chunk, one after the other.
LEMMA ConsumePartsRuns ==
  ASSUME NEW s, NEW finish, GoogleKeeps(s, finish), NEW w, Len(w.parts) \in Nat, NEW calls
  PROVE  GoogleKeeps(ConsumeParts(s, w, calls), finish)
<1>. DEFINE m == Len(w.parts)
<1>. DEFINE f == CHOOSE f : f = [i \in 0..m |->
                     IF i = 0 THEN s
                     ELSE ConsumePart(f[i - 1], w.candidate, w.parts[i], i = 1, calls)]
<1>1. ConsumeParts(s, w, calls) = f[m]
  BY DEF ConsumeParts
<1>2. \E g : ReadBy(g, m, s, w, calls)
  BY ReadExists
<1>3. ReadBy(f, m, s, w, calls)
  BY <1>2 DEF ReadBy, PartRead
<1>. HIDE DEF f
<1>. DEFINE S == {i \in Nat : i <= m => GoogleKeeps(f[i], finish)}
<1>4. f[0] = s /\ \A i \in 1..m : f[i] = PartRead(f[i - 1], i, w, calls)
  <2>1. f = [i \in 0..m |-> IF i = 0 THEN s ELSE PartRead(f[i - 1], i, w, calls)]
    BY <1>3 DEF ReadBy
  <2>2. m \in Nat
    OBVIOUS
  <2>. HIDE DEF m
  <2>3. \A i \in 0..m : f[i] = IF i = 0 THEN s ELSE PartRead(f[i - 1], i, w, calls)
    BY <2>1
  <2>. QED BY <2>2, <2>3
<1>5. 0 \in S
  BY <1>4
<1>6. ASSUME NEW i \in Nat, i \in S PROVE i + 1 \in S
  <2>. SUFFICES ASSUME i + 1 <= m PROVE GoogleKeeps(f[i + 1], finish)
    OBVIOUS
  <2>1. GoogleKeeps(f[i], finish)
    BY <1>6
  <2>2. f[i + 1] = PartRead(f[i], i + 1, w, calls)
    BY <1>4
  <2>3. GoogleKeeps(PartRead(f[i], i + 1, w, calls), finish)
    BY <2>1, ConsumePartRuns DEF PartRead
  <2>. QED BY <2>2, <2>3
<1>. HIDE DEF S
<1>7. \A i \in Nat : i \in S
  BY <1>5, <1>6, SetInduction
<1>. QED BY <1>1, <1>7 DEF S

\* What one wire event may do to the finish reasons: it names the candidate it is
\* about, and settles no other.
Settles(t, s, w) ==
    /\ DOMAIN s.finish \subseteq DOMAIN t.finish
    /\ w.candidate >= 0 => w.candidate \in DOMAIN t.finish
    /\ \A c \in DOMAIN t.finish : t.finish[c] # "" =>
          \/ c \in DOMAIN s.finish /\ s.finish[c] # ""
          \/ c = w.candidate /\ w.finish # ""

\* No event finishes a Gemini source.
LEMMA GoogleConsumes ==
  ASSUME NEW s, Running(s, "google"), NEW w, NEW calls,
         w.candidate \in Int, Len(w.parts) \in Nat,
         NEW t, t = GoogleConsume(s, w, calls)
  PROVE  t.err # "" \/ (Running(t, "google") /\ Settles(t, s, w))
<1>. DEFINE c     == w.candidate
<1>. DEFINE begun == Start(s)
<1>. DEFINE seen  == IF c < 0 \/ c \in DOMAIN s.finish THEN begun
                     ELSE [begun EXCEPT !.finish = Put(@, c, "")]
<1>. DEFINE read  == ConsumeParts(seen, w, calls)
<1>. DEFINE tool  == \E k \in DOMAIN read.parts : k[1] = c /\ read.parts[k].kind = "tool"
<1>. DEFINE reason == IF w.finish = "stop" /\ tool THEN "tool_call" ELSE w.finish
<1>. DEFINE ended == [read EXCEPT !.finish = IF w.finish = "" THEN @ ELSE Put(@, c, reason),
                                  !.blocked = @ \/ w.type = "blocked"]
<1>1. t = IF w.type = "error" THEN Fails(s, "provider")
          ELSE IF read.err # "" THEN read ELSE ended
  BY DEF GoogleConsume
<1>2. Running(begun, "google") /\ begun.finish = s.finish
  BY StartRuns
<1>. HIDE DEF begun
<1>3. /\ Running(seen, "google")
      /\ seen.finish = IF c < 0 \/ c \in DOMAIN s.finish THEN s.finish ELSE Put(s.finish, c, "")
  BY <1>2 DEF Running, SourceFields
<1>. HIDE DEF seen
<1>4. GoogleKeeps(read, seen.finish)
  <2>1. GoogleKeeps(seen, seen.finish)
    BY <1>3 DEF GoogleKeeps
  <2>. QED BY <2>1, ConsumePartsRuns
<1>. HIDE DEF read, tool
<1>5. CASE read.err # ""
  <2>. HIDE DEF ended
  <2>. QED BY <1>1, <1>5, GuardRuns
<1>6. CASE read.err = ""
  <2>1. Running(read, "google") /\ read.finish = seen.finish
    BY <1>4, <1>6 DEF GoogleKeeps
  <2>2. /\ Running(ended, "google")
        /\ ended.finish = IF w.finish = "" THEN seen.finish ELSE Put(seen.finish, c, reason)
    <3>. HIDE DEF reason
    <3>. QED BY <2>1 DEF Running, SourceFields
  <2>3. w.finish # "" => reason # ""
    OBVIOUS
  <2>4. Settles(ended, s, w)
    <3>1. /\ DOMAIN seen.finish = DOMAIN s.finish \cup (IF c < 0 THEN {} ELSE {c})
          /\ \A x \in DOMAIN seen.finish : seen.finish[x] # "" =>
                x \in DOMAIN s.finish /\ s.finish[x] # ""
      BY <1>3 DEF Put
    <3>2. /\ DOMAIN seen.finish \subseteq DOMAIN ended.finish
          /\ \A x \in DOMAIN ended.finish : ended.finish[x] # "" =>
                \/ x \in DOMAIN seen.finish /\ seen.finish[x] # ""
                \/ x = c /\ w.finish # ""
      <4>. HIDE DEF ended, reason
      <4>. QED BY <2>2, <2>3 DEF Put
    <3>3. c >= 0 => c \in DOMAIN seen.finish
      <4>1. c \in Int
        OBVIOUS
      <4>2. c >= 0 => ~(c < 0)
        BY <4>1
      <4>. QED BY <3>1, <4>2
    <3>. HIDE DEF ended, reason
    <3>. QED BY <3>1, <3>2, <3>3 DEF Settles
  <2>. HIDE DEF ended
  <2>. QED BY <1>1, <1>6, <2>2, <2>4, GuardRuns
<1>. QED BY <1>5, <1>6

\* The end of the body finishes a Gemini source and leaves the finish reasons, or
\* fails on a state that is too large.
LEMMA GoogleCompletes ==
  ASSUME NEW s, Running(s, "google"), NEW t, t = GoogleComplete(s)
  PROVE  t.err # "" \/ (Finishing(t, "google") /\ t.finish = s.finish)
<1>. DEFINE q == GoogleClosing(s) \o
                 <<ResponseEnd(GoogleFinishes(s), IF DOMAIN s.finish = {} /\ s.blocked
                                                    THEN 1 ELSE 0)>>
<1>. DEFINE parts == [k \in DOMAIN Push(s, q).parts |->
                         [Push(s, q).parts[k] EXCEPT !.open = FALSE]]
<1>. DEFINE large == \E c \in DOMAIN s.finish : StateTooLarge(GoogleState(s, c))
<1>1. t = IF large THEN Fails(s, "limit")
          ELSE [Push(s, q) EXCEPT !.finished = TRUE, !.parts = parts]
  BY DEF GoogleComplete
<1>. HIDE DEF q, large
<1>2. Push(s, q) = [s EXCEPT !.queue = @ \o q]
  BY DEF Push
<1>. HIDE DEF parts
<1>3. CASE large
  BY <1>1, <1>3, GuardRuns
<1>4. CASE ~large
  BY <1>1, <1>2, <1>4 DEF Running, SourceFields, Finishing
<1>. QED BY <1>3, <1>4

-----------------------------------------------------------------------------
(* The source as the stream meets it.                                        *)

Decoded == {"chat", "anthropic", "responses", "google"}

\* The wire carried what ends a response in its protocol.
Evidenced ==
    /\ source.protocol \in {"chat", "anthropic"} =>
          \E i \in DOMAIN wires : wires[i].type = "done"
    /\ source.protocol = "responses" =>
          \E i \in DOMAIN wires : wires[i].type = "completed"
    /\ source.protocol = "google" =>
          /\ body = "ended" /\ wires # <<>>
          /\ \A c \in DOMAIN source.finish : source.finish[c] # ""

\* A decoder that has not finished: no end in its queue, in the reader's hands or
\* among what was delivered.
Underway ==
    /\ Running(source, source.protocol)
    /\ source.protocol = "chat" => ChatParts(source)
    /\ source.started => wires # <<>>
    /\ ~stream.terminalSeen
    /\ reader.at = "back" /\ reader.item.is \notin {"eof", "error"} =>
          reader.item.event.kind # "end"

\* Gemini's candidates are those the wire named, with the reasons it gave.
ReasonsFor(protocol, read, finish) ==
    protocol = "google" =>
        /\ \A i \in DOMAIN read :
              read[i].candidate >= 0 => read[i].candidate \in DOMAIN finish
        /\ \A c \in DOMAIN finish : finish[c] # "" =>
              \E i \in DOMAIN read : read[i].candidate = c /\ read[i].finish # ""

ReasonsRead == ReasonsFor(source.protocol, wires, source.finish)

\* A decoder that failed is not read again, and no end was delivered.
Broken ==
    /\ reader.at \in {"back", "ended"} /\ ~stream.terminalSeen
    /\ reader.at = "back" => reader.item.is = "error"

SourceInv ==
    /\ IsList(wires) /\ DOMAIN reader = {"at", "item"}
    /\ source.err # "" => Broken
    /\ source.err = "" =>
          /\ DOMAIN source = SourceFields /\ source.protocol \in KnownProtocols
          /\ source.protocol = "unary" => source.finished
          /\ source.protocol \in Decoded =>
                /\ IF source.finished THEN Evidenced ELSE Underway
                /\ ReasonsRead

\* A queue that is not empty, without its first event.
LEMMA NoEndTail ==
  ASSUME NEW q, NoEnd(q), q # <<>>
  PROVE  Head(q).kind # "end" /\ NoEnd(Tail(q))
<1>. DEFINE n == Len(q)
<1>. DEFINE t == Tail(q)
<1>1. q \in Seq(Range(q)) /\ n \in Nat /\ DOMAIN q = 1..n
  BY ListIndexes DEF NoEnd, IsList
<1>2. n # 0
  BY <1>1, EmptySeq
<1>3. Head(q) = q[1] /\ 1 \in DOMAIN q
  BY <1>1, <1>2
<1>4. t \in Seq(Range(q)) /\ Len(t) = n - 1 /\ \A i \in 1..(n - 1) : t[i] = q[i + 1]
  BY <1>1, HeadTailProperties
<1>. HIDE DEF t
<1>5. t = [i \in 1..(n - 1) |-> t[i]] /\ n - 1 \in Nat
  <2>1. t \in [1..Len(t) -> Range(q)]
    BY <1>4, LenProperties
  <2>. QED BY <1>1, <1>2, <1>4, <2>1
<1>6. \A i \in 1..(n - 1) : t[i].kind # "end"
  <2>. SUFFICES ASSUME NEW i \in 1..(n - 1) PROVE t[i].kind # "end"
    OBVIOUS
  <2>1. i + 1 \in DOMAIN q /\ t[i] = q[i + 1]
    BY <1>1, <1>4
  <2>. QED BY <2>1 DEF NoEnd
<1>7. NoEnd(t)
  BY <1>5, <1>6, NoEndList
<1>. QED BY <1>3, <1>7 DEF NoEnd, t

\* A new decoder is under way, and a unary response has nothing to read.
LEMMA SourceInvInit == StreamInit => SourceInv
<1>. SUFFICES ASSUME StreamInit PROVE SourceInv
  OBVIOUS
<1>1. wires = <<>> /\ reader = [at |-> "idle", item |-> Nothing]
  BY DEF StreamInit
<1>2. IsList(wires) /\ DOMAIN wires = {} /\ DOMAIN reader = {"at", "item"}
  BY <1>1, EmptyFacts
<1>3. stream.terminalSeen = FALSE
  <2>1. PICK configured \in Configured : stream = NewStream(configured)
    BY DEF StreamInit
  <2>. QED BY <2>1 DEF NewStream
<1>4. ASSUME NEW p \in Protocols \ {"unary"}, source = NewSource(p) PROVE SourceInv
  <2>1. /\ DOMAIN source = SourceFields /\ source.protocol = p /\ source.err = ""
        /\ ~source.finished /\ ~source.started /\ source.queue = <<>> /\ source.parts = <<>>
        /\ source.finish = <<>>
    BY <1>4 DEF NewSource, SourceFields
  <2>2. p \in KnownProtocols /\ p # "unary"
    BY StreamAssumption
  <2>3. Running(source, p)
    BY <2>1, NoEndSequences DEF Running
  <2>4. ChatParts(source)
    <3>1. DOMAIN source.parts = {}
      BY <2>1, EmptyFacts
    <3>. QED BY <3>1, FS_EmptySet DEF ChatParts
  <2>5. DOMAIN source.finish = {}
    BY <2>1, EmptyFacts
  <2>6. Underway /\ ReasonsRead
    BY <1>1, <1>2, <1>3, <2>1, <2>3, <2>4, <2>5 DEF Underway, ReasonsRead, ReasonsFor
  <2>. QED BY <1>2, <2>1, <2>2, <2>6 DEF SourceInv
<1>5. ASSUME NEW a, source = UnarySource(a) PROVE SourceInv
  <2>1. /\ DOMAIN source = SourceFields /\ source.protocol = "unary" /\ source.err = ""
        /\ source.finished
    BY <1>5 DEF UnarySource, NewSource, SourceFields
  <2>. QED BY <1>2, <2>1 DEF SourceInv, KnownProtocols, Decoded
<1>. QED BY <1>4, <1>5 DEF StreamInit

\* What a step that reads nothing and delivers nothing must keep.
SourceKept ==
    /\ source' = source /\ wires' = wires
    /\ body = "ended" => body' = "ended"
    /\ DOMAIN reader' = {"at", "item"}

\* A step that leaves the source alone, and no end in the reader's hands that was
\* not there.
LEMMA KeptStep ==
  ASSUME SourceInv, SourceKept, (stream'.terminalSeen <=> stream.terminalSeen),
         source.err # "" => Broken',
         reader'.at = "back" /\ reader'.item.is \notin {"eof", "error"} => reader' = reader
  PROVE  SourceInv'
<1>1. CASE source.err # ""
  BY <1>1 DEF SourceInv, SourceKept
<1>2. CASE source.err = ""
  <2>1. Evidenced => Evidenced'
    BY DEF Evidenced, SourceKept
  <2>2. Underway => Underway'
    BY DEF Underway, SourceKept
  <2>3. ReasonsRead => ReasonsRead'
    BY DEF ReasonsRead, SourceKept
  <2>4. source'.err = "" /\ source'.protocol = source.protocol
        /\ (source'.finished <=> source.finished) /\ IsList(wires')
    BY <1>2 DEF SourceKept, SourceInv
  <2>. QED BY <1>2, <2>1, <2>2, <2>3, <2>4 DEF SourceKept, SourceInv
<1>. QED BY <1>1, <1>2

\* The reader is in the source only while nothing failed.
LEMMA ReadingSound ==
  ASSUME SourceInv, InSource
  PROVE  source.err = ""
BY DEF SourceInv, Broken, InSource

\* Taking an event from the queue.
LEMMA ShiftStep ==
  ASSUME SourceInv, QueueShift
  PROVE  SourceInv'
<1>1. /\ source' = [source EXCEPT !.queue = Tail(@)] /\ source.queue # <<>>
      /\ reader' = [at |-> "back", item |-> Item(Head(source.queue))]
      /\ body' = body /\ stream' = stream /\ wires' = wires
  BY DEF QueueShift, Return
<1>2. source.err = ""
  BY ReadingSound DEF QueueShift
<1>3. /\ DOMAIN source = SourceFields /\ source.protocol \in KnownProtocols
      /\ source.protocol = "unary" => source.finished
  BY <1>2 DEF SourceInv
<1>4. /\ DOMAIN source' = SourceFields /\ source'.err = ""
      /\ source'.protocol = source.protocol /\ source'.finished = source.finished
      /\ source'.parts = source.parts /\ source'.finish = source.finish
      /\ source'.started = source.started /\ source'.queue = Tail(source.queue)
  BY <1>1, <1>2, <1>3 DEF SourceFields
<1>5. /\ reader'.item.is = "event" /\ reader'.item.event = Head(source.queue)
      /\ DOMAIN reader' = {"at", "item"}
  BY <1>1 DEF Item
<1>6. Evidenced => Evidenced'
  BY <1>1, <1>4 DEF Evidenced
<1>7. ReasonsRead => ReasonsRead'
  BY <1>1, <1>4 DEF ReasonsRead
<1>8. ASSUME Underway PROVE Underway'
  <2>1. NoEnd(source.queue)
    BY <1>8 DEF Underway, Running
  <2>2. Head(source.queue).kind # "end" /\ NoEnd(Tail(source.queue))
    BY <1>1, <2>1, NoEndTail
  <2>3. Running(source', source'.protocol)
    BY <1>4, <1>8, <2>2 DEF Underway, Running
  <2>4. ChatParts(source) => ChatParts(source')
    BY <1>4 DEF ChatParts
  <2>. QED BY <1>1, <1>4, <1>5, <1>8, <2>2, <2>3, <2>4 DEF Underway
<1>9. IsList(wires')
  BY <1>1 DEF SourceInv
<1>. QED BY <1>2, <1>3, <1>4, <1>5, <1>6, <1>7, <1>8, <1>9 DEF SourceInv

\* The wires read, with one more.
LEMMA OneMoreWire ==
  ASSUME IsList(wires), NEW w, wires' = Append(wires, w)
  PROVE  /\ IsList(wires') /\ Extends(wires', wires, w)
         /\ \A i \in DOMAIN wires : i \in DOMAIN wires' /\ wires'[i] = wires[i]
         /\ \E i \in DOMAIN wires' : wires'[i] = w
         /\ \A i \in DOMAIN wires' : i \in DOMAIN wires \/ wires'[i] = w
<1>1. IsList(wires') /\ Extends(wires', wires, w)
  BY AppendExtends
<1>2. Len(wires) \in Nat /\ DOMAIN wires = 1..Len(wires)
  BY ListIndexes
<1>. QED BY <1>1, <1>2 DEF Extends

\* A decoder reads a wire event: it fails, goes on, or is told that it is done.
LEMMA DecoderReads ==
  ASSUME Running(source, source.protocol), source.protocol \in Decoded,
         source.protocol = "chat" => ChatParts(source),
         NEW w \in Wires(source.protocol), source' = Consume(source, w, limits.tools)
  PROVE  \/ source'.err # ""
         \/ /\ Running(source', source.protocol)
            /\ source.protocol = "chat" => ChatParts(source')
            /\ source.protocol = "google" => Settles(source', source, w)
         \/ /\ Finishing(source', source.protocol)
            /\ source.protocol \in {"chat", "anthropic"} => w.type = "done"
            /\ source.protocol = "responses" => w.type = "completed"
            /\ source.protocol # "google"
<1>1. CASE source.protocol = "chat"
  <2>1. source' = ChatConsume(source, w, limits.tools)
    BY <1>1 DEF Consume
  <2>2. ChatRuns(source') \/ (w.type = "done" /\ Finishing(source', "chat"))
    BY <1>1, <2>1, ChatConsumes
  <2>. QED BY <1>1, <2>2 DEF ChatRuns
<1>2. CASE source.protocol = "anthropic"
  <2>1. source' = AnthropicConsume(source, w, limits.tools)
    BY <1>2 DEF Consume
  <2>2. \/ FailsOrRuns(source', "anthropic")
        \/ w.type = "done" /\ Finishing(source', "anthropic")
    BY <1>2, <2>1, AnthropicConsumes
  <2>. QED BY <1>2, <2>2 DEF FailsOrRuns
<1>3. CASE source.protocol = "responses"
  <2>1. source' = ResponsesConsume(source, w, limits.tools)
    BY <1>3 DEF Consume
  <2>2. \/ FailsOrRuns(source', "responses")
        \/ w.type = "completed" /\ Finishing(source', "responses")
    BY <1>3, <2>1, ResponsesConsumes
  <2>. QED BY <1>3, <2>2 DEF FailsOrRuns
<1>4. CASE source.protocol = "google"
  <2>1. source' = GoogleConsume(source, w, limits.tools)
    BY <1>4 DEF Consume
  <2>2. w.candidate \in Int /\ Len(w.parts) \in Nat
    BY <1>4, StreamAssumption
  <2>3. source'.err # "" \/ (Running(source', "google") /\ Settles(source', source, w))
    BY <1>4, <2>1, <2>2, GoogleConsumes
  <2>. QED BY <1>4, <2>3
<1>. QED BY <1>1, <1>2, <1>3, <1>4 DEF Decoded

\* Reading a wire event.
LEMMA WireStep ==
  ASSUME SourceInv, NEW w \in Wires(source.protocol), ReadWire(w)
  PROVE  SourceInv'
<1>1. source.err = "" /\ ~source.finished /\ reader.at = "source"
  BY ReadingSound DEF ReadWire, MustRead, InSource
<1>2. /\ DOMAIN source = SourceFields /\ source.protocol \in KnownProtocols
      /\ source.protocol # "unary" /\ IsList(wires) /\ DOMAIN reader = {"at", "item"}
      /\ source.protocol \in Decoded => Underway /\ ReasonsRead
  BY <1>1 DEF SourceInv
<1>3. wires' = Append(wires, w) /\ stream' = stream /\ body' = body
  BY DEF ReadWire
<1>4. IsList(wires')
  BY <1>2, <1>3, OneMoreWire
<1>5. CASE source.protocol = "any"
  <2>1. source' = source /\ reader' = [at |-> "back", item |-> Item(w)]
    BY <1>5 DEF ReadWire, Return
  <2>. QED BY <1>1, <1>2, <1>4, <1>5, <2>1 DEF SourceInv, Decoded
<1>6. CASE source.protocol # "any"
  <2>1. source.protocol \in Decoded
    BY <1>2, <1>6 DEF KnownProtocols, Decoded
  <2>2. /\ source' = Consume(source, w, limits.tools)
        /\ IF source'.err # "" THEN reader' = [at |-> "back", item |-> SourceError(source'.err)]
                               ELSE reader' = reader
    BY <1>6 DEF ReadWire, Return
  <2>3. Underway /\ ReasonsRead
    BY <1>2, <2>1
  <2>4. CASE source'.err # ""
    <3>1. reader' = [at |-> "back", item |-> SourceError(source'.err)]
      BY <2>2, <2>4
    <3>2. /\ reader'.at = "back" /\ reader'.item = SourceError(source'.err)
          /\ DOMAIN reader' = {"at", "item"}
      BY <3>1
    <3>3. reader'.item.is = "error"
      BY <3>2 DEF SourceError
    <3>4. Broken'
      BY <1>3, <2>3, <3>2, <3>3 DEF Broken, Underway
    <3>. QED BY <1>4, <2>4, <3>2, <3>4 DEF SourceInv
  <2>5. CASE source'.err = ""
    <3>1. reader' = reader
      BY <2>2, <2>5
    <3>2. \/ /\ Running(source', source.protocol)
             /\ source.protocol = "chat" => ChatParts(source')
             /\ source.protocol = "google" => Settles(source', source, w)
          \/ /\ Finishing(source', source.protocol)
             /\ source.protocol \in {"chat", "anthropic"} => w.type = "done"
             /\ source.protocol = "responses" => w.type = "completed"
             /\ source.protocol # "google"
      BY <2>1, <2>2, <2>3, <2>5, DecoderReads DEF Underway
    <3>3. DOMAIN source' = SourceFields /\ source'.protocol = source.protocol
      BY <3>2 DEF Running, Finishing
    <3>4. ReasonsRead'
      <4>. SUFFICES ASSUME source.protocol = "google" PROVE ReasonsRead'
        BY <3>3 DEF ReasonsRead, ReasonsFor
      <4>1. Settles(source', source, w)
        BY <3>2
      <4>2. ASSUME NEW i \in DOMAIN wires', wires'[i].candidate >= 0
            PROVE  wires'[i].candidate \in DOMAIN source'.finish
        <5>1. CASE i \in DOMAIN wires
          <6>1. wires'[i] = wires[i]
            BY <1>2, <1>3, <5>1, OneMoreWire
          <6>. QED BY <2>3, <4>1, <4>2, <5>1, <6>1 DEF ReasonsRead, ReasonsFor, Settles
        <5>2. CASE wires'[i] = w
          BY <4>1, <4>2, <5>2 DEF Settles
        <5>. QED BY <1>2, <1>3, <5>1, <5>2, OneMoreWire
      <4>3. ASSUME NEW c \in DOMAIN source'.finish, source'.finish[c] # ""
            PROVE  \E i \in DOMAIN wires' : wires'[i].candidate = c /\ wires'[i].finish # ""
        <5>1. CASE c \in DOMAIN source.finish /\ source.finish[c] # ""
          <6>1. PICK i \in DOMAIN wires : wires[i].candidate = c /\ wires[i].finish # ""
            BY <2>3, <5>1 DEF ReasonsRead, ReasonsFor
          <6>2. i \in DOMAIN wires' /\ wires'[i] = wires[i]
            BY <1>2, <1>3, OneMoreWire
          <6>. QED BY <6>1, <6>2
        <5>2. CASE c = w.candidate /\ w.finish # ""
          <6>1. PICK i \in DOMAIN wires' : wires'[i] = w
            BY <1>2, <1>3, OneMoreWire
          <6>. QED BY <5>2, <6>1
        <5>. QED BY <4>1, <4>3, <5>1, <5>2 DEF Settles
      <4>. QED BY <4>2, <4>3 DEF ReasonsRead, ReasonsFor
    <3>5. CASE Running(source', source.protocol)
      <4>1. ~source'.finished
        BY <3>5 DEF Running
      <4>2. source.protocol = "chat" => ChatParts(source')
        BY <3>2, <4>1 DEF Finishing
      <4>3. wires' # <<>>
        BY <1>2, <1>3, OneMoreWire, EmptyFacts
      <4>4. Underway'
        BY <1>3, <2>3, <3>1, <3>3, <3>5, <4>2, <4>3 DEF Underway
      <4>. QED BY <1>2, <1>4, <2>5, <3>1, <3>3, <3>4, <4>1, <4>4 DEF SourceInv
    <3>6. CASE ~Running(source', source.protocol)
      <4>1. /\ Finishing(source', source.protocol)
            /\ source.protocol \in {"chat", "anthropic"} => w.type = "done"
            /\ source.protocol = "responses" => w.type = "completed"
            /\ source.protocol # "google"
        BY <3>2, <3>6
      <4>2. PICK i \in DOMAIN wires' : wires'[i] = w
        BY <1>2, <1>3, OneMoreWire
      <4>3. Evidenced' /\ source'.finished
        BY <3>3, <4>1, <4>2 DEF Evidenced, Finishing
      <4>. QED BY <1>2, <1>4, <2>5, <3>1, <3>3, <3>4, <4>3 DEF SourceInv
    <3>. QED BY <3>5, <3>6
  <2>. QED BY <2>4, <2>5
<1>. QED BY <1>5, <1>6

\* The end of the body: a Gemini source whose candidates all have a reason finishes,
\* unless a state is too large.
LEMMA EOFStep ==
  ASSUME SourceInv, ReadEOF
  PROVE  SourceInv'
<1>1. source.err = "" /\ ~source.finished /\ reader.at = "source"
  BY ReadingSound DEF ReadEOF, MustRead, InSource
<1>2. body' = "ended" /\ stream' = stream /\ wires' = wires
  BY DEF ReadEOF
<1>3. CASE source.protocol = "google" /\ HasTerminalEvidence(source)
  <2>1. /\ source' = GoogleComplete(source)
        /\ IF source'.err # "" THEN reader' = [at |-> "back", item |-> SourceError(source'.err)]
                               ELSE reader' = reader
    BY <1>3 DEF ReadEOF, Return
  <2>2. /\ Running(source, "google") /\ Underway /\ ReasonsRead
        /\ IsList(wires) /\ DOMAIN reader = {"at", "item"}
    BY <1>1, <1>3 DEF SourceInv, Underway, Decoded
  <2>3. CASE source'.err # ""
    <3>1. reader' = [at |-> "back", item |-> SourceError(source'.err)]
      BY <2>1, <2>3
    <3>2. /\ reader'.at = "back" /\ reader'.item = SourceError(source'.err)
          /\ DOMAIN reader' = {"at", "item"}
      BY <3>1
    <3>3. reader'.item.is = "error"
      BY <3>2 DEF SourceError
    <3>4. Broken'
      BY <1>2, <2>2, <3>2, <3>3 DEF Broken, Underway
    <3>. QED BY <1>2, <2>2, <2>3, <3>2, <3>4 DEF SourceInv
  <2>4. CASE source'.err = ""
    <3>1. reader' = reader
      BY <2>1, <2>4
    <3>2. Finishing(source', "google") /\ source'.finish = source.finish
      BY <2>1, <2>2, <2>4, GoogleCompletes
    <3>3. \A c \in DOMAIN source'.finish : source'.finish[c] # ""
      BY <1>3, <3>2 DEF HasTerminalEvidence
    <3>4. wires # <<>>
      BY <1>3, <2>2 DEF HasTerminalEvidence, Underway
    <3>5. source'.protocol = source.protocol
      BY <1>3, <3>2 DEF Finishing
    <3>6. Evidenced'
      BY <1>2, <1>3, <3>3, <3>4, <3>5 DEF Evidenced
    <3>7. ReasonsRead'
      BY <1>2, <2>2, <3>2, <3>5 DEF ReasonsRead
    <3>. QED BY <1>1, <1>2, <1>3, <2>2, <3>1, <3>2, <3>6, <3>7
         DEF SourceInv, Finishing, KnownProtocols
  <2>. QED BY <2>3, <2>4
<1>4. CASE ~(source.protocol = "google" /\ HasTerminalEvidence(source))
  <2>1. source' = source /\ reader' = [at |-> "back", item |-> EndOfSource]
    BY <1>4 DEF ReadEOF, Return
  <2>2. reader'.item.is = "eof" /\ DOMAIN reader' = {"at", "item"}
    BY <2>1 DEF EndOfSource
  <2>3. SourceKept
    BY <1>2, <2>1, <2>2 DEF SourceKept
  <2>. QED BY <1>1, <1>2, <2>2, <2>3, KeptStep
<1>. QED BY <1>3, <1>4

\* What Next makes of the item: an error or a superseded item delivers nothing, and
\* only an end sets terminalSeen.
LEMMA ResumeEnds ==
  ASSUME StreamInv, NextResume
  PROVE  /\ source' = source /\ wires' = wires /\ body' = body
         /\ reader.at = "back" /\ reader'.at \in {"idle", "ended"}
         /\ DOMAIN reader' = {"at", "item"}
         /\ \/ (stream'.terminalSeen <=> stream.terminalSeen)
            \/ reader.item.is \notin {"eof", "error"} /\ reader.item.event.kind = "end"
         /\ reader.item.is = "error" => reader'.at = "ended"
<1>1. source' = source /\ wires' = wires /\ body' = body /\ reader.at = "back"
  BY DEF NextResume
<1>2. DOMAIN stream = StreamFields
  BY DEF StreamInv
<1>3. CASE Superseded(stream)
  <2>1. stream' = stream /\ reader' = [at |-> "ended", item |-> Nothing]
    BY <1>3 DEF NextResume
  <2>. QED BY <1>1, <2>1
<1>4. CASE ~Superseded(stream)
  <2>1. ASSUME NEW why, Reject(why)
        PROVE  /\ (stream'.terminalSeen <=> stream.terminalSeen)
               /\ reader' = [at |-> "ended", item |-> Nothing]
    BY <1>2, <2>1 DEF Reject, StreamFields
  <2>2. ASSUME Exhausted
        PROVE  /\ (stream'.terminalSeen <=> stream.terminalSeen)
               /\ reader' = [at |-> "ended", item |-> Nothing]
    <3>1. CASE stream.terminalSeen
      BY <1>2, <2>2, <3>1 DEF Exhausted, StreamFields
    <3>2. CASE ~stream.terminalSeen
      BY <2>1, <2>2, <3>2 DEF Exhausted
    <3>. QED BY <3>1, <3>2
  <2>3. ASSUME NEW e, AcceptEvent(e)
        PROVE  /\ (stream'.terminalSeen <=> stream.terminalSeen) \/ e.kind = "end"
               /\ \E at \in {"idle", "ended"} : reader' = [at |-> at, item |-> Nothing]
    <3>1. CASE Accepted(stream.reducer, stream.limiter, e, limits)
      <4>1. /\ stream' = [stream EXCEPT !.limiter = LimiterCounts(@, e),
                                        !.reducer = ReducerApplies(@, e),
                                        !.terminalSeen = @ \/ e.kind = "end"]
            /\ reader' = [at |-> "idle", item |-> Nothing]
        BY <2>3, <3>1 DEF AcceptEvent, Accepted
      <4>2. CASE e.kind = "end"
        BY <4>1, <4>2
      <4>3. CASE e.kind # "end"
        <5>1. stream'.terminalSeen <=> (stream.terminalSeen \/ e.kind = "end")
          BY <1>2, <4>1 DEF StreamFields
        <5>. QED BY <4>1, <4>3, <5>1
      <4>. QED BY <4>2, <4>3
    <3>2. CASE ~Accepted(stream.reducer, stream.limiter, e, limits)
      BY <2>1, <2>3, <3>2 DEF AcceptEvent, Accepted
    <3>. QED BY <3>1, <3>2
  <2>4. CASE reader.item.is = "eof"
    <3>1. Exhausted
      BY <1>4, <2>4 DEF NextResume
    <3>. QED BY <1>1, <2>2, <2>4, <3>1
  <2>5. CASE reader.item.is = "error"
    <3>1. \E why : Reject(why)
      BY <1>4, <2>5 DEF NextResume
    <3>. QED BY <1>1, <2>1, <2>5, <3>1
  <2>6. CASE reader.item.is \notin {"eof", "error"}
    <3>1. AcceptEvent(reader.item.event)
      BY <1>4, <2>6 DEF NextResume
    <3>. QED BY <1>1, <2>3, <2>6, <3>1
  <2>. QED BY <2>4, <2>5, <2>6
<1>. QED BY <1>3, <1>4

\* The steps that leave the source, the wire and what was delivered alone.
LEMMA IdleSteps ==
  ASSUME StreamInv, SourceInv,
         \/ SourceFinished \/ ReadFails \/ NextEnter \/ Cancel \/ Rest
         \/ UNCHANGED streamVars \/ \E c \in Closers : CloseMark(c) \/ CloseSource(c)
  PROVE  SourceInv'
<1>1. DOMAIN reader = {"at", "item"} /\ DOMAIN stream = StreamFields
  BY DEF SourceInv, StreamInv
<1>2. source.err # "" => Broken
  BY DEF SourceInv
<1>3. ASSUME InSource, source' = source, wires' = wires, body' = body, stream' = stream,
             NEW item, item.is \in {"eof", "error"}, reader' = [at |-> "back", item |-> item]
      PROVE  SourceInv'
  <2>1. source.err = ""
    BY <1>3, ReadingSound
  <2>2. reader'.item.is \in {"eof", "error"} /\ DOMAIN reader' = {"at", "item"}
    BY <1>3
  <2>3. SourceKept
    BY <1>3, <2>2 DEF SourceKept
  <2>. QED BY <1>3, <2>1, <2>2, <2>3, KeptStep
<1>4. ASSUME source' = source, wires' = wires, body = "ended" => body' = "ended",
             (stream'.terminalSeen <=> stream.terminalSeen), reader' = reader
      PROVE  SourceInv'
  <2>1. SourceKept
    BY <1>1, <1>4 DEF SourceKept
  <2>2. source.err # "" => Broken'
    BY <1>2, <1>4 DEF Broken
  <2>. QED BY <1>4, <2>1, <2>2, KeptStep
<1>5. CASE SourceFinished
  <2>1. EndOfSource.is = "eof"
    BY DEF EndOfSource
  <2>. QED BY <1>3, <1>5, <2>1 DEF SourceFinished, Return
<1>6. CASE ReadFails
  <2>1. SourceError("read").is = "error"
    BY DEF SourceError
  <2>. QED BY <1>3, <1>6, <2>1 DEF ReadFails, Return, MustRead
<1>7. CASE NextEnter
  <2>1. /\ reader.at = "idle" /\ source' = source /\ wires' = wires /\ body' = body
        /\ stream' = stream
        /\ \E at \in {"ended", "source"} : reader' = [reader EXCEPT !.at = at]
    BY <1>7 DEF NextEnter
  <2>2. reader'.at \in {"ended", "source"} /\ DOMAIN reader' = {"at", "item"}
    BY <1>1, <2>1
  <2>3. SourceKept
    BY <2>1, <2>2 DEF SourceKept
  <2>4. source.err = ""
    BY <1>2, <2>1 DEF Broken
  <2>. QED BY <2>1, <2>2, <2>3, <2>4, KeptStep
<1>8. CASE \E c \in Closers : CloseMark(c)
  <2>1. /\ source' = source /\ wires' = wires /\ body' = body /\ reader' = reader
        /\ stream' = MarkClosed(stream)
    BY <1>8 DEF CloseMark
  <2>2. (stream'.terminalSeen <=> stream.terminalSeen)
    BY <1>1, <2>1 DEF MarkClosed, StreamFields
  <2>. QED BY <1>4, <2>1, <2>2
<1>9. CASE \E c \in Closers : CloseSource(c)
  BY <1>4, <1>9 DEF CloseSource
<1>10. CASE Cancel \/ Rest \/ UNCHANGED streamVars
  BY <1>4, <1>10 DEF Cancel, Rest, streamVars
<1>. QED BY <1>5, <1>6, <1>7, <1>8, <1>9, <1>10

\* Next's resumption.
LEMMA ResumeStep ==
  ASSUME StreamInv, SourceInv, NextResume
  PROVE  SourceInv'
<1>1. /\ source' = source /\ wires' = wires /\ body' = body
      /\ reader.at = "back" /\ reader'.at \in {"idle", "ended"}
      /\ DOMAIN reader' = {"at", "item"}
      /\ \/ (stream'.terminalSeen <=> stream.terminalSeen)
         \/ reader.item.is \notin {"eof", "error"} /\ reader.item.event.kind = "end"
      /\ reader.item.is = "error" => reader'.at = "ended"
  BY ResumeEnds
<1>2. SourceKept
  BY <1>1 DEF SourceKept
<1>3. CASE (stream'.terminalSeen <=> stream.terminalSeen)
  <2>1. source.err # "" => Broken'
    BY <1>1, <1>3 DEF SourceInv, Broken
  <2>. QED BY <1>1, <1>2, <1>3, <2>1, KeptStep
<1>4. CASE reader.item.is \notin {"eof", "error"} /\ reader.item.event.kind = "end"
  <2>1. source.err = ""
    BY <1>1, <1>4 DEF SourceInv, Broken
  <2>2. ~Underway
    BY <1>1, <1>4 DEF Underway
  <2>3. Evidenced => Evidenced'
    BY <1>1 DEF Evidenced
  <2>4. ReasonsRead => ReasonsRead'
    BY <1>1 DEF ReasonsRead
  <2>. QED BY <1>1, <2>1, <2>2, <2>3, <2>4 DEF SourceInv
<1>. QED BY <1>1, <1>3, <1>4

\* Every step keeps the invariant of the source.
LEMMA SourceInvStep == StreamInv /\ SourceInv /\ [StreamNext]_streamVars => SourceInv'
<1>. SUFFICES ASSUME StreamInv, SourceInv, [StreamNext]_streamVars PROVE SourceInv'
  OBVIOUS
<1>1. CASE QueueShift
  BY <1>1, ShiftStep
<1>2. CASE \E w \in Wires(source.protocol) : ReadWire(w)
  BY <1>2, WireStep
<1>3. CASE ReadEOF
  BY <1>3, EOFStep
<1>4. CASE NextResume
  BY <1>4, ResumeStep
<1>5. CASE \/ SourceFinished \/ ReadFails \/ NextEnter \/ Cancel \/ Rest
           \/ UNCHANGED streamVars \/ \E c \in Closers : CloseMark(c) \/ CloseSource(c)
  BY <1>5, IdleSteps
<1>. QED BY <1>1, <1>2, <1>3, <1>4, <1>5 DEF StreamNext

\* A decoder that has not finished has an end neither queued, nor in the reader's
\* hands, nor delivered; one that finished has read what ends a response.
THEOREM SourceInvariant == StreamSpec => []SourceInv
<1>1. StreamInit /\ [][StreamNext]_streamVars => [](StreamInv /\ SourceInv)
  BY StreamInvInit, StreamInvStep, SourceInvInit, SourceInvStep, PTL
<1>. QED BY <1>1, PTL DEF StreamSpec

\* A body that ends, fails or is cut before the provider's protocol says it is done
\* never becomes a response: a chat, Anthropic or Responses body without its terminal
\* event, a Gemini body that did not end cleanly, carried no chunk, or left a named
\* candidate without a finish reason.  A Gemini body that named no candidate at all
\* does become one, and an empty one (google/stream.go:263-268).
THEOREM NeverTruncated == StreamSpec => []NoSilentTruncation
<1>1. SourceInv => NoSilentTruncation
  <2>. SUFFICES ASSUME SourceInv, HasResponse PROVE NoSilentTruncation
    BY DEF NoSilentTruncation
  <2>1. stream.terminalSeen
    BY DEF HasResponse
  <2>2. source.err = ""
    BY <2>1 DEF SourceInv, Broken
  <2>3. source.protocol \in Decoded => Evidenced /\ ReasonsRead
    BY <2>1, <2>2 DEF SourceInv, Underway
  <2>4. ASSUME source.protocol = "google", NEW i \in DOMAIN wires, wires[i].candidate >= 0
        PROVE  \E j \in DOMAIN wires :
                  wires[j].candidate = wires[i].candidate /\ wires[j].finish # ""
    BY <2>3, <2>4 DEF Decoded, Evidenced, ReasonsRead, ReasonsFor
  <2>. QED BY <2>3, <2>4 DEF NoSilentTruncation, Has, Decoded, Evidenced
<1>. QED BY <1>1, SourceInvariant, PTL
=============================================================================
